---------------------------- MODULE Spec2Model ----------------------------
(***************************************************************************)
(* A model of the idea clustering and scoring engine of findditapp.        *)
(*                                                                         *)
(* Strings are sequences of one-character strings, so that indexing,       *)
(* slicing and comparison are what the TypeScript code does on them.       *)
(* Fractions (similarity scores) are exact rationals [n |-> _, d |-> _]    *)
(* with d > 0; the code's doubles are compared through them.               *)
(***************************************************************************)
EXTENDS Integers, Sequences, FiniteSets, TLC

VARIABLES
    simA, simB, simOut,         \* similarity.ts: the two arguments, the last result
    textIn, textOut,            \* extract.ts: the text given, the last result
    argPosts, argProblems, argWindowDays,   \* clusterIdeas: its parameters
    dateNow,                    \* the clock reading (Date.now()) of the last call, in days
    mergedDrafts,               \* the drafts the last call grouped and merged
    clusters,                   \* the list the last call returned
    callIn, callOut,            \* score.ts, trend.ts, synthesize.ts: a call's arguments, its result
    dbIdeas, dbIdeaPosts,       \* storage.ts: the rows of the tables ideas and idea_posts
    dbCall,                     \* storage.ts: the arguments of the last storeIdeas
    fetchUrl, fetchPc, attempt, \* enhanced.ts fetchWithBackoff: the call, its position, its counter
    requests, waits, fetchOut   \* the requests sent and the waits made by the call, its outcome

simVars == <<simA, simB, simOut>>

textVars == <<textIn, textOut>>

clusterVars == <<argPosts, argProblems, argWindowDays, dateNow, mergedDrafts, clusters>>

callVars == <<callIn, callOut>>

dbVars == <<dbIdeas, dbIdeaPosts, dbCall>>

fetchVars == <<fetchUrl, fetchPc, attempt, requests, waits, fetchOut>>

ioVars == <<dbVars, fetchVars>>

vars == <<simVars, textVars, clusterVars, callVars, ioVars>>

None == [fn |-> "none"]

NotRun == [impl |-> "none", ideas |-> <<>>]

\* the call variables while another part of the engine is examined
CallIdle == callIn = None /\ callOut = None

\* the tables while another part of the engine is examined
DbIdle == dbIdeas = {} /\ dbIdeaPosts = {} /\ dbCall = None

\* fetchWithBackoff while another part of the engine is examined
FetchIdle ==
    /\ fetchUrl = "" /\ fetchPc = "idle" /\ attempt = 0
    /\ requests = <<>> /\ waits = <<>> /\ fetchOut = None

IoIdle == DbIdle /\ FetchIdle

\* the clustering variables while another part of the engine is examined
ClusterIdle ==
    /\ argPosts = <<>> /\ argProblems = <<>> /\ argWindowDays = 0 /\ dateNow = 0
    /\ mergedDrafts = <<>>
    /\ clusters = NotRun

(***************************************************************************)
(* Generic helpers                                                         *)
(***************************************************************************)
Min2(x, y) == IF x <= y THEN x ELSE y

Max2(x, y) == IF x >= y THEN x ELSE y

Range(s) == {s[i] : i \in 1..Len(s)}

RECURSIVE SeqsUpTo(_, _)
SeqsUpTo(S, n) ==
    IF n = 0 THEN {<<>>}
    ELSE LET shorter == SeqsUpTo(S, n - 1)
         IN  shorter \cup {Append(s, c) : s \in {t \in shorter : Len(t) = n - 1}, c \in S}

Rat(n, d) == [n |-> n, d |-> d]

RLeq(x, y) == x.n * y.d <= y.n * x.d

REq(x, y) == x.n * y.d = y.n * x.d

RMax(x, y) == IF RLeq(x, y) THEN y ELSE x

Zero == Rat(0, 1)

One == Rat(1, 1)

(***************************************************************************)
(* String.prototype.toLowerCase on the characters the model uses           *)
(***************************************************************************)
UpperChars == <<"A","B","C","D","E","F","G","H","I","J","K","L","M",
                "N","O","P","Q","R","S","T","U","V","W","X","Y","Z">>

LowerChars == <<"a","b","c","d","e","f","g","h","i","j","k","l","m",
                "n","o","p","q","r","s","t","u","v","w","x","y","z">>

toLowerChar(c) ==
    IF \E i \in 1..Len(UpperChars) : UpperChars[i] = c
    THEN LowerChars[CHOOSE i \in 1..Len(UpperChars) : UpperChars[i] = c]
    ELSE c

toLowerCase(s) == [i \in 1..Len(s) |-> toLowerChar(s[i])]

(***************************************************************************)
(* src/lib/text/similarity.ts                                              *)
(***************************************************************************)
\* bigrams(text): the lower-cased 2-character slices, in order
bigrams(text) ==
    LET cleaned == toLowerCase(text)
    IN  [i \in 1..Max2(0, Len(cleaned) - 1) |-> <<cleaned[i], cleaned[i + 1]>>]

\* the count map of b's bigrams: gram -> number of occurrences
bigramCounts(grams) ==
    [g \in Range(grams) |-> Cardinality({i \in 1..Len(grams) : grams[i] = g})]

\* the loop over a's bigrams: each one consumes one occurrence left in bCounts
RECURSIVE diceOverlap(_, _, _)
diceOverlap(aBigrams, i, bCounts) ==
    IF i > Len(aBigrams) THEN 0
    ELSE LET gram == aBigrams[i]
             count == IF gram \in DOMAIN bCounts THEN bCounts[gram] ELSE 0
         IN  IF count > 0
             THEN 1 + diceOverlap(aBigrams, i + 1, [bCounts EXCEPT ![gram] = count - 1])
             ELSE diceOverlap(aBigrams, i + 1, bCounts)

diceCoefficient(a, b) ==
    IF Len(a) = 0 \/ Len(b) = 0 THEN Zero
    ELSE IF a = b THEN One
    ELSE LET aBigrams == bigrams(a)
             bBigrams == bigrams(b)
         IN  IF Len(aBigrams) = 0 \/ Len(bBigrams) = 0 THEN Zero
             ELSE Rat(2 * diceOverlap(aBigrams, 1, bigramCounts(bBigrams)),
                      Len(aBigrams) + Len(bBigrams))

\* matchDistance = floor(max(aLen, bLen) / 2) - 1   (-1 when both have length 1)
matchDistance(a, b) == (Max2(Len(a), Len(b)) \div 2) - 1

\* the inner loop for a[i]: the first unmatched j of the window with a[i] = b[j], or 0
jaroFirstMatch(a, b, i, bMatches) ==
    LET md == matchDistance(a, b)
        start == Max2(1, i - md)
        end == Min2(i + md, Len(b))
        cand == {j \in start..end : j \notin bMatches /\ a[i] = b[j]}
    IN  IF cand = {} THEN 0 ELSE CHOOSE j \in cand : \A k \in cand : j <= k

\* the matching loop: the sets of matched positions of a and of b
RECURSIVE jaroMatches(_, _, _, _, _)
jaroMatches(a, b, i, aMatches, bMatches) ==
    IF i > Len(a) THEN [aM |-> aMatches, bM |-> bMatches]
    ELSE LET j == jaroFirstMatch(a, b, i, bMatches)
         IN  IF j = 0 THEN jaroMatches(a, b, i + 1, aMatches, bMatches)
             ELSE jaroMatches(a, b, i + 1, aMatches \cup {i}, bMatches \cup {j})

\* while (!bMatches[j]) j += 1: an index past b reads undefined, and the loop goes on
RECURSIVE jaroSkip(_, _, _)
jaroSkip(bMatches, j, limit) ==
    IF j \in bMatches \/ j > limit THEN j ELSE jaroSkip(bMatches, j + 1, limit)

\* the transposition scan: [t |-> transpositions, maxJ |-> the largest index read in b]
RECURSIVE jaroScan(_, _, _, _, _, _)
jaroScan(a, b, m, i, j, acc) ==
    IF i > Len(a) THEN acc
    ELSE IF i \notin m.aM THEN jaroScan(a, b, m, i + 1, j, acc)
    ELSE LET k == jaroSkip(m.bM, j, Len(b))
             mismatch == IF k > Len(b) THEN 1 ELSE IF a[i] # b[k] THEN 1 ELSE 0
         IN  jaroScan(a, b, m, i + 1, k + 1,
                      [t |-> acc.t + mismatch, maxJ |-> Max2(acc.maxJ, k)])

jaroDistance(a, b) ==
    IF a = b THEN One
    ELSE IF Len(a) = 0 \/ Len(b) = 0 THEN Zero
    ELSE LET mt == jaroMatches(a, b, 1, {}, {})
             m == Cardinality(mt.aM)
         IN  IF m = 0 THEN Zero
             ELSE LET tr == jaroScan(a, b, mt, 1, 1, [t |-> 0, maxJ |-> 0]).t
                  \* (m/aLen + m/bLen + (m - tr/2)/m) / 3
                  IN  Rat(2 * m * m * Len(b) + 2 * m * m * Len(a)
                            + (2 * m - tr) * Len(a) * Len(b),
                          6 * m * Len(a) * Len(b))

prefixLimit == 4

\* prefixScale = 0.1, in tenths
prefixScaleTenths == 1

\* the prefix loop: stops at the first difference or at limit characters
RECURSIVE commonPrefix(_, _, _, _)
commonPrefix(a, b, i, limit) ==
    IF i > limit THEN 0
    ELSE IF a[i] = b[i] THEN 1 + commonPrefix(a, b, i + 1, limit)
    ELSE 0

\* the prefix loop without the 4-character limit
jaroWinklerPrefixUnlimited(a, b) ==
    commonPrefix(a, b, 1, Min2(Len(a), Len(b)))

jaroWinklerPrefix(a, b) ==
    commonPrefix(a, b, 1, Min2(Min2(Len(a), Len(b)), prefixLimit))

jaroWinklerDistance(a, b) ==
    LET jaro == jaroDistance(a, b)
        prefix == jaroWinklerPrefix(a, b)
    IN  \* jaro + prefix * prefixScale * (1 - jaro)
        Rat(10 * jaro.n + prefix * prefixScaleTenths * (jaro.d - jaro.n), 10 * jaro.d)

(***************************************************************************)
(* JavaScript string primitives used by extract.ts and stem.ts             *)
(***************************************************************************)
Digits == {"0","1","2","3","4","5","6","7","8","9"}

Whitespace == {" ", "\n", "\t"}

IsLower(c) == \E i \in 1..Len(LowerChars) : LowerChars[i] = c

IsUpper(c) == \E i \in 1..Len(UpperChars) : UpperChars[i] = c

toUpperChar(c) ==
    IF IsLower(c) THEN UpperChars[CHOOSE i \in 1..Len(LowerChars) : LowerChars[i] = c]
    ELSE c

\* the characters in UTF-16 code unit order, as Array.prototype.sort compares them
CodeOrder == <<"\t", "\n", " ", "!", "'", "-", "0","1","2","3","4","5","6","7","8","9", "?">>
             \o UpperChars \o <<"_">> \o LowerChars

CodeOf(c) == CHOOSE i \in 1..Len(CodeOrder) : CodeOrder[i] = c

\* a < b as strings: the first differing code unit decides, a proper prefix is smaller
StrLess(a, b) ==
    \E k \in 1..(Min2(Len(a), Len(b)) + 1) :
        /\ \A i \in 1..(k - 1) : a[i] = b[i]
        /\ IF k > Len(a) THEN k <= Len(b)
           ELSE k <= Len(b) /\ CodeOf(a[k]) < CodeOf(b[k])

EndsWith(w, suffix) ==
    /\ Len(w) >= Len(suffix)
    /\ SubSeq(w, Len(w) - Len(suffix) + 1, Len(w)) = suffix

StartsWith(w, prefix) ==
    /\ Len(w) >= Len(prefix)
    /\ SubSeq(w, 1, Len(prefix)) = prefix

\* text.split(/\s+/): the pieces between maximal whitespace runs (empty at the ends)
RECURSIVE splitWhitespace(_, _, _, _)
splitWhitespace(s, i, cur, acc) ==
    IF i > Len(s) THEN Append(acc, cur)
    ELSE IF s[i] \in Whitespace
         THEN IF i > 1 /\ s[i - 1] \in Whitespace
              THEN splitWhitespace(s, i + 1, cur, acc)
              ELSE splitWhitespace(s, i + 1, <<>>, Append(acc, cur))
         ELSE splitWhitespace(s, i + 1, Append(cur, s[i]), acc)

\* Array.from(new Set(tokens)): first occurrences, in order
RECURSIVE uniqueTokens(_, _, _)
uniqueTokens(tokens, i, acc) ==
    IF i > Len(tokens) THEN acc
    ELSE IF tokens[i] \in Range(acc) THEN uniqueTokens(tokens, i + 1, acc)
    ELSE uniqueTokens(tokens, i + 1, Append(acc, tokens[i]))

\* one insertion of Array.prototype.sort's default (code unit) order
RECURSIVE insertToken(_, _, _)
insertToken(sorted, tok, i) ==
    IF i > Len(sorted) THEN Append(sorted, tok)
    ELSE IF StrLess(tok, sorted[i])
         THEN SubSeq(sorted, 1, i - 1) \o <<tok>> \o SubSeq(sorted, i, Len(sorted))
         ELSE insertToken(sorted, tok, i + 1)

RECURSIVE sortFrom(_, _, _)
sortFrom(tokens, i, acc) ==
    IF i > Len(tokens) THEN acc
    ELSE sortFrom(tokens, i + 1, insertToken(acc, tokens[i], 1))

\* tokens.sort() left out
sortTokensUnsorted(tokens) == tokens

sortTokens(tokens) == sortFrom(tokens, 1, <<>>)

\* parts.join(sep)
RECURSIVE join(_, _, _)
join(parts, sep, i) ==
    IF i > Len(parts) THEN <<>>
    ELSE IF i = Len(parts) THEN parts[i]
    ELSE parts[i] \o sep \o join(parts, sep, i + 1)

\* value.trim()
RECURSIVE trimStart(_)
trimStart(s) ==
    IF Len(s) > 0 /\ s[1] \in Whitespace THEN trimStart(Tail(s)) ELSE s

RECURSIVE trimEnd(_)
trimEnd(s) ==
    IF Len(s) > 0 /\ s[Len(s)] \in Whitespace THEN trimEnd(SubSeq(s, 1, Len(s) - 1)) ELSE s

trim(s) == trimEnd(trimStart(s))

\* tokens.filter((token) => !dropped.has(token)), in order
RECURSIVE withoutFrom(_, _, _, _)
withoutFrom(tokens, dropped, i, acc) ==
    IF i > Len(tokens) THEN acc
    ELSE withoutFrom(tokens, dropped, i + 1,
                     IF tokens[i] \in dropped THEN acc ELSE Append(acc, tokens[i]))

without(tokens, dropped) == withoutFrom(tokens, dropped, 1, <<>>)

(***************************************************************************)
(* src/lib/text/stem.ts                                                    *)
(***************************************************************************)
SUFFIX_RULES ==
    << [suffix |-> <<"i","e","s">>, replacement |-> <<"y">>],
       [suffix |-> <<"i","n","g">>, replacement |-> <<>>],
       [suffix |-> <<"i","n","g","s">>, replacement |-> <<"i","n","g">>],
       [suffix |-> <<"e","d">>, replacement |-> <<>>],
       [suffix |-> <<"e","r","s">>, replacement |-> <<"e","r">>],
       [suffix |-> <<"e","r">>, replacement |-> <<>>],
       [suffix |-> <<"e","s">>, replacement |-> <<"e">>],
       [suffix |-> <<"s">>, replacement |-> <<>>] >>

\* a loop that returns at the first rule that matches, short result or not
RECURSIVE stripSuffixFirstMatch(_, _)
stripSuffixFirstMatch(word, r) ==
    IF r > Len(SUFFIX_RULES) THEN word
    ELSE LET rule == SUFFIX_RULES[r]
             next == SubSeq(word, 1, Len(word) - Len(rule.suffix)) \o rule.replacement
         IN  IF EndsWith(toLowerCase(word), rule.suffix)
             THEN IF Len(next) >= 3 THEN next ELSE word
             ELSE stripSuffixFirstMatch(word, r + 1)

\* the rules are tried in order; one whose result is shorter than 3 is passed over
RECURSIVE stripSuffixFrom(_, _)
stripSuffixFrom(word, r) ==
    IF r > Len(SUFFIX_RULES) THEN word
    ELSE LET rule == SUFFIX_RULES[r]
             next == SubSeq(word, 1, Len(word) - Len(rule.suffix)) \o rule.replacement
         IN  IF EndsWith(toLowerCase(word), rule.suffix) /\ Len(next) >= 3
             THEN next
             ELSE stripSuffixFrom(word, r + 1)

stripSuffix(word) == stripSuffixFrom(word, 1)

stemWord(word) ==
    LET cleaned == toLowerCase(word)
    IN  IF Len(cleaned) <= 2 THEN cleaned ELSE stripSuffix(cleaned)

(***************************************************************************)
(* src/lib/problems/extract.ts                                             *)
(***************************************************************************)
STOPWORDS == {
    <<"a">>, <<"a","n">>, <<"t","h","e">>, <<"a","n","d">>, <<"o","r">>, <<"b","u","t">>,
    <<"f","o","r">>, <<"n","o","r">>, <<"s","o">>, <<"y","e","t">>, <<"o","f">>, <<"a","t">>,
    <<"b","y">>, <<"t","o">>, <<"i","n","t","o">>, <<"o","n">>, <<"o","n","t","o">>, <<"i","n">>,
    <<"t","h","a","t">>, <<"t","h","i","s">>, <<"t","h","e","s","e">>, <<"t","h","o","s","e">>,
    <<"w","i","t","h">>, <<"a","b","o","u","t">>, <<"f","r","o","m">>, <<"u","p">>,
    <<"d","o","w","n">>, <<"o","v","e","r">>, <<"u","n","d","e","r">>, <<"a","g","a","i","n">>,
    <<"f","u","r","t","h","e","r">>, <<"t","h","e","n">>, <<"o","n","c","e">>, <<"h","e","r","e">>,
    <<"t","h","e","r","e">>, <<"w","h","e","n">>, <<"w","h","e","r","e">>, <<"w","h","y">>,
    <<"h","o","w">>, <<"a","l","l">>, <<"a","n","y">>, <<"b","o","t","h">>, <<"e","a","c","h">>,
    <<"f","e","w">>, <<"m","o","r","e">>, <<"m","o","s","t">>, <<"o","t","h","e","r">>,
    <<"s","o","m","e">>, <<"s","u","c","h">>, <<"n","o">>, <<"n","o","t">>, <<"o","n","l","y">>,
    <<"o","w","n">>, <<"s","a","m","e">>, <<"t","h","a","n">>, <<"t","o","o">>,
    <<"v","e","r","y">>, <<"c","a","n">>, <<"w","i","l","l">>, <<"j","u","s","t">>,
    <<"n","e","e","d">>, <<"h","a","v","e">>, <<"h","a","s">>, <<"h","a","d">>, <<"b","e">>,
    <<"i","s">>, <<"a","m">>, <<"a","r","e">>, <<"w","a","s">>, <<"w","e","r","e">>,
    <<"b","e","i","n","g">>, <<"b","e","e","n">> }

MAX_WORDS == 12

\* [a-z0-9\s'-]
IsSignatureChar(c) ==
    IsLower(c) \/ c \in Digits \/ c \in Whitespace \/ c \in {"'", "-"}

\* text.replace(/[^a-z0-9\s'-]/g, " ")
stripToSignatureChars(s) ==
    [i \in 1..Len(s) |-> IF IsSignatureChar(s[i]) THEN s[i] ELSE " "]

\* .filter(Boolean).filter((token) => !STOPWORDS.has(token))
canonicalTokens(phrase) ==
    without(splitWhitespace(stripToSignatureChars(toLowerCase(phrase)), 1, <<>>, <<>>),
            {<<>>} \cup STOPWORDS)

canonicalizePhrase(phrase) ==
    LET tokens == canonicalTokens(phrase)
        unique == sortTokens(uniqueTokens(tokens, 1, <<>>))
    IN  join(unique, <<"_">>, 1)

\* value.replace(/\s+/g, " ").trim()
normalizeWhitespace(value) ==
    LET pieces == splitWhitespace(value, 1, <<>>, <<>>)
    IN  trim(join(pieces, <<" ">>, 1))

truncateWords(phrase) ==
    LET words == without(splitWhitespace(phrase, 1, <<>>, <<>>), {<<>>})
    IN  join(SubSeq(words, 1, Min2(Len(words), MAX_WORDS)), <<" ">>, 1)

capitalizeFirst(value) ==
    IF value = <<>> THEN value ELSE <<toUpperChar(value[1])>> \o Tail(value)

IsAlnum(c) == IsLower(c) \/ IsUpper(c) \/ c \in Digits

\* clause.replace(/^[^a-z0-9]+/i, "")
RECURSIVE stripLeadingNonAlnum(_)
stripLeadingNonAlnum(s) ==
    IF Len(s) > 0 /\ ~IsAlnum(s[1]) THEN stripLeadingNonAlnum(Tail(s)) ELSE s

\* [^a-z0-9\s'-] with the i flag: upper-case letters are kept
stripClauseChars(s) ==
    [i \in 1..Len(s) |-> IF IsSignatureChar(s[i]) \/ IsUpper(s[i]) THEN s[i] ELSE " "]

LeadingConnectives ==
    { <<"t","o">>, <<"t","h","a","t">>, <<"f","o","r">>,
      <<"a","b","o","u","t">>, <<"w","i","t","h">> }

\* clause.replace(/^(?:to|that|for|about|with)\s+/i, "")
stripLeadingConnective(s) ==
    LET hits == {c \in LeadingConnectives :
                    /\ StartsWith(toLowerCase(s), c)
                    /\ Len(s) > Len(c)
                    /\ s[Len(c) + 1] \in Whitespace}
    IN  IF hits = {} THEN s
        ELSE LET c == CHOOSE h \in hits : TRUE
             IN  trimStart(SubSeq(s, Len(c) + 1, Len(s)))

cleanClause(clause) ==
    LET sanitized == normalizeWhitespace(
                        stripLeadingConnective(stripClauseChars(stripLeadingNonAlnum(clause))))
    IN  truncateWords(toLowerCase(sanitized))

buildProblemTitle(raw) ==
    LET trimmed == normalizeWhitespace(toLowerCase(raw))
        title == capitalizeFirst(trimmed)
    IN  SubSeq(title, 1, Min2(Len(title), 80))

\* the phrases extractFromCue hands back: none (null) or one;
\* clause is <<>> when the argument is left out, <<c>> when it is c
extractFromCue(sentence, cueId, clause) ==
    LET baseClause == IF clause = <<>> THEN sentence ELSE clause[1]
        cleaned == cleanClause(baseClause)
        canonical == canonicalizePhrase(cleaned)
    IN  IF cleaned = <<>> THEN <<>>
        ELSE IF canonical = <<>> THEN <<>>
        ELSE << [postId |-> "", phrase |-> buildProblemTitle(cleaned),
                 canonical |-> canonical, snippet |-> trim(sentence), cueId |-> cueId] >>

\* the phrases extractProblemsWithLLM returns for the model's parsed answer
extractProblemsWithLLM(post, result) ==
    IF result.isActionableProblem /\ result.confidence > 5
    THEN << [postId |-> post.id, phrase |-> result.problemStatement,
             canonical |-> canonicalizePhrase(result.problemStatement),
             snippet |-> post.title, cueId |-> "llm_detected"] >>
    ELSE <<>>

(***************************************************************************)
(* src/config/patterns.ts                                                  *)
(***************************************************************************)
\* PROBLEM_CUES.map((cue) => cue.id)
PRIMARY_CUE_IDS ==
    { "i_wish", "is_there_an_app", "how_do_i", "every_period", "no_easy_way",
      "takes_forever", "how_do_i_alt", "need_to", "trying_to", "looking_for_tool",
      "want_to", "can_i", "any_way_to", "struggling_with", "spending_time", "manual",
      "repetitive", "copy_paste", "spreadsheet_hell", "tedious", "time_consuming",
      "automate", "inefficient", "pain_point", "workflow", "integrate", "sync",
      "streamline" }

HIGHLIGHT_KEYWORDS ==
    << <<"a","u","t","o","m","a","t","e">>, <<"b","a","t","c","h">>, <<"a","p","i">>, <<"c","s","v">>, <<"w","o","r","k","f","l","o","w">>, <<"s","c","r","i","p","t">>, <<"z","a","p","i","e","r">>,
       <<"g","o","o","g","l","e"," ","s","h","e","e","t","s">> >>

\* src/config/patterns.ts: the exported PAIN_WORDS, which extract.ts does not import
PAIN_WORDS_patterns ==
    << <<"m","a","n","u","a","l">>, <<"r","e","p","e","t","i","t","i","v","e">>, <<"t","e","d","i","o","u","s">>, <<"b","o","r","i","n","g">>, <<"e","r","r","o","r","-","p","r","o","n","e">>, <<"c","o","p","y"," ","p","a","s","t","e">>,
       <<"t","a","k","e","s"," ","f","o","r","e","v","e","r">> >>

(***************************************************************************)
(* src/lib/problems/extract.ts: countPainWords                             *)
(***************************************************************************)
PAIN_WORDS ==
    << <<"p","r","o","b","l","e","m">>, <<"i","s","s","u","e">>, <<"d","i","f","f","i","c","u","l","t">>, <<"h","a","r","d">>, <<"s","t","r","u","g","g","l","e">>, <<"p","a","i","n">>, <<"a","n","n","o","y","i","n","g">>,
       <<"f","r","u","s","t","r","a","t","i","n","g">> >>

\* \w
IsWordChar(c) == IsAlnum(c) \/ c = "_"

\* haystack.includes(needle)
Includes(haystack, needle) ==
    \E i \in 1..(Len(haystack) - Len(needle) + 1) :
        SubSeq(haystack, i, i + Len(needle) - 1) = needle

\* the matches of /\bword\b/gi in lower: the start positions
wordMatches(lower, word) ==
    {i \in 1..(Len(lower) - Len(word) + 1) :
        /\ SubSeq(lower, i, i + Len(word) - 1) = word
        /\ (i = 1 \/ ~IsWordChar(lower[i - 1]))
        /\ (i + Len(word) > Len(lower) \/ ~IsWordChar(lower[i + Len(word)]))}

RECURSIVE painHitsFrom(_, _)
painHitsFrom(lower, w) ==
    IF w > Len(PAIN_WORDS) THEN 0
    ELSE Cardinality(wordMatches(lower, PAIN_WORDS[w])) + painHitsFrom(lower, w + 1)

countPainWords(text) ==
    IF text = <<>> THEN 0 ELSE painHitsFrom(toLowerCase(text), 1)

(***************************************************************************)
(* src/lib/ideas/score.ts                                                  *)
(* Scores are in thousandths; Math.log1p and Math.exp are their values     *)
(* rounded to thousandths, tabulated over the counts and ages of the model.*)
(***************************************************************************)
Log1pTable ==
 << 0, 693, 1099, 1386, 1609, 1792, 1946, 2079, 2197, 2303, 2398, 2485, 2565, 2639, 2708,
    2773, 2833, 2890, 2944, 2996, 3045 >>

\* Math.log1p(n) * 1000, n in 0..20
log1p(n) == Log1pTable[n + 1]

ExpTable ==
 << 1000, 967, 936, 905, 875, 846, 819, 792, 766, 741, 717, 693, 670, 648, 627, 607, 587,
    567, 549, 531, 513, 497, 480, 465, 449, 435, 420, 407, 393, 380, 368, 356, 344, 333,
    322, 311, 301, 291, 282, 273, 264, 255, 247, 239, 231, 223, 216, 209, 202, 195, 189,
    183, 177, 171, 165, 160, 155, 150, 145, 140, 135 >>

\* a recency that does not depend on the age
recencyFlat(ageDays) == ExpTable[1]

\* Math.exp(-ageDays / tauDays) * 1000 for tauDays = 30, ageDays in 0..60 whole days
recencyOf(ageDays) == ExpTable[ageDays + 1]

\* Math.max(0, (now - createdMs) / msPerDay), in whole days
ageDaysOf(createdDay, now) == Max2(0, now - createdDay)

\* a loop without the break: one increment for every keyword found
patternBonusPerKeyword(patternMatched, representativePhrase) ==
    LET phraseLower == toLowerCase(representativePhrase)
    IN  IF ~patternMatched THEN 0
        ELSE 1000 + 250 * Cardinality({k \in 1..Len(HIGHLIGHT_KEYWORDS) :
                                          Includes(phraseLower, HIGHLIGHT_KEYWORDS[k])})

\* the loop over HIGHLIGHT_KEYWORDS: one increment at the first keyword found
patternBonusOf(patternMatched, representativePhrase) ==
    LET phraseLower == toLowerCase(representativePhrase)
    IN  IF ~patternMatched THEN 0
        ELSE IF \E k \in 1..Len(HIGHLIGHT_KEYWORDS) : Includes(phraseLower, HIGHLIGHT_KEYWORDS[k])
             THEN 1250
             ELSE 1000

computePostScore(post, patternMatched, representativePhrase, now) ==
    LET ageDays == ageDaysOf(post.createdDay, now)
        recency == recencyOf(ageDays)
        up == Max2(0, post.upvotes)
        cm == Max2(0, post.comments)
        patternBonus == patternBonusOf(patternMatched, representativePhrase)
        painHits == countPainWords(post.title \o <<"\n">> \o post.selftext)
        painWordsBonus == Min2(1200, painHits * 300)
    IN  [postScore |-> log1p(up) + (log1p(cm) \div 2) + ((8 * recency) \div 10)
                        + 2 * patternBonus + painWordsBonus,
         ageDays |-> ageDays, recency |-> recency, up |-> up, cm |-> cm,
         patternBonus |-> patternBonus, painWordsBonus |-> painWordsBonus]

RECURSIVE SumSeq(_, _)
SumSeq(s, i) == IF i > Len(s) THEN 0 ELSE s[i] + SumSeq(s, i + 1)

\* an idea score without the diversity multiplier
computeIdeaScoreFlat(postScores, uniqueSubreddits) ==
    LET sumPost == SumSeq(postScores, 1)
        volume == log1p(Len(postScores))
    IN  [ideaScore |-> sumPost * 10 * (800 + (2 * volume) \div 10),
         sumPost |-> sumPost, diversity |-> 10, volume |-> volume]

\* ideaScore in units of 10^-7: sumPost (10^-3) * diversity (10^-1) * volume factor (10^-3)
computeIdeaScore(postScores, uniqueSubreddits) ==
    LET sumPost == SumSeq(postScores, 1)
        diversity == Min2(15, 10 + Max2(0, uniqueSubreddits - 1))
        postsCount == Len(postScores)
        volume == log1p(postsCount)
    IN  [ideaScore |-> sumPost * diversity * (800 + (2 * volume) \div 10),
         sumPost |-> sumPost, diversity |-> diversity, volume |-> volume]

\* Number(ideaScore.toFixed(2)), in hundredths
toFixed2(ideaScore) == (ideaScore + 50000) \div 100000

(***************************************************************************)
(* src/lib/ideas/trend.ts                                                  *)
(***************************************************************************)
\* a week count that starts a new week at every full 7 days
weeksOfExtra(windowDays) == Max2(1, (windowDays \div 7) + 1)

\* Math.max(1, Math.ceil(windowDays / 7))
weeksOf(windowDays) == Max2(1, (windowDays + 6) \div 7)

\* the index a post of this age is counted at; -1 and below is outside the array
binIndexOf(ageDays, weeks) == Min2(weeks - 1, weeks - 1 - (ageDays \div 7))

\* the loop over the posts: bins is indexed 0..weeks-1 (as 1..weeks here); a write
\* at a negative index sets a property of the array and no element
RECURSIVE fillBins(_, _, _, _, _)
fillBins(posts, i, windowDays, now, bins) ==
    IF i > Len(posts) THEN bins
    ELSE LET ageDays == ageDaysOf(posts[i].createdDay, now)
             binIndex == binIndexOf(ageDays, Len(bins))
         IN  IF ageDays > windowDays THEN fillBins(posts, i + 1, windowDays, now, bins)
             ELSE IF binIndex < 0 THEN fillBins(posts, i + 1, windowDays, now, bins)
             ELSE fillBins(posts, i + 1, windowDays, now,
                           [bins EXCEPT ![binIndex + 1] = @ + 1])

\* the slope without the test of the denominator
trendSlopeUnguarded(bins) ==
    LET n == Len(bins)
        total == SumSeq(bins, 1)
        num == SumSeq([i \in 1..n |-> (2 * (i - 1) - (n - 1)) * (n * bins[i] - total)], 1)
        den == SumSeq([i \in 1..n |-> (2 * (i - 1) - (n - 1)) * (2 * (i - 1) - (n - 1))], 1)
    IN  Rat(2 * num, n * den)

\* numerator and denominator, scaled by 2n and by 4: slope = 2 num / (n den)
trendSlope(bins) ==
    LET n == Len(bins)
        total == SumSeq(bins, 1)
        num == SumSeq([i \in 1..n |-> (2 * (i - 1) - (n - 1)) * (n * bins[i] - total)], 1)
        den == SumSeq([i \in 1..n |-> (2 * (i - 1) - (n - 1)) * (2 * (i - 1) - (n - 1))], 1)
    IN  IF den = 0 THEN Zero ELSE Rat(2 * num, n * den)

computeTrend(posts, windowDays, now) ==
    LET weeks == weeksOf(windowDays)
        bins == fillBins(posts, 1, windowDays, now, [i \in 1..weeks |-> 0])
    IN  [bins |-> bins, slope |-> trendSlope(bins)]

(***************************************************************************)
(* src/unnamed/part_003 (the clustering module, @/lib/ideas/cluster)       *)
(* A draft is [canonical, entries, phraseCounts]; a Map is the sequence of *)
(* its entries in insertion order.                                         *)
(***************************************************************************)
\* SIMILARITY_THRESHOLD = 0.85, in hundredths
SIMILARITY_THRESHOLD == 85

KEYWORD_STOPWORDS ==
    { <<"t","o">>, <<"i","n","t","o">>, <<"f","r","o","m">>, <<"f","o","r">>, <<"a","n","d">>, <<"t","h","e">>, <<"a">>, <<"a","n">>, <<"o","f">>, <<"o","n">>,
      <<"i","n">>, <<"w","i","t","h">>, <<"m","y">>, <<"o","u","r">>, <<"t","h","e","i","r">>, <<"y","o","u","r">>, <<"h","o","w">>, <<"d","o">>, <<"i">>, <<"w","e">> }

MIN_CLUSTER_SIZE == 2

\* the decimal digits of a number below 100
decimal(n) ==
    LET ds == <<"0","1","2","3","4","5","6","7","8","9">>
    IN  IF n < 10 THEN <<ds[n + 1]>> ELSE <<ds[(n \div 10) + 1], ds[(n % 10) + 1]>>

\* the sha1 digest cut to 10 hex digits stands for the text it is taken of
hashCanonical(canonical) == canonical

\* a scan with >= in place of >: the last phrase with the highest count
RECURSIVE lastBestPhraseFrom(_, _, _, _)
lastBestPhraseFrom(phraseCounts, i, bestPhrase, bestCount) ==
    IF i > Len(phraseCounts) THEN bestPhrase
    ELSE IF phraseCounts[i].count >= bestCount
         THEN lastBestPhraseFrom(phraseCounts, i + 1, phraseCounts[i].phrase, phraseCounts[i].count)
         ELSE lastBestPhraseFrom(phraseCounts, i + 1, bestPhrase, bestCount)

\* the first phrase with the highest count, in insertion order
RECURSIVE bestPhraseFrom(_, _, _, _)
bestPhraseFrom(phraseCounts, i, bestPhrase, bestCount) ==
    IF i > Len(phraseCounts) THEN bestPhrase
    ELSE IF phraseCounts[i].count > bestCount
         THEN bestPhraseFrom(phraseCounts, i + 1, phraseCounts[i].phrase, phraseCounts[i].count)
         ELSE bestPhraseFrom(phraseCounts, i + 1, bestPhrase, bestCount)

representativePhrase(draft) == bestPhraseFrom(draft.phraseCounts, 1, <<>>, -1)

similarity(a, b) == RMax(diceCoefficient(a, b), jaroWinklerDistance(a, b))

\* map.set(key, (map.get(key) ?? 0) + count): a known key keeps its place
mapAdd(counts, key, count) ==
    IF \E i \in 1..Len(counts) : counts[i].phrase = key
    THEN LET at == CHOOSE i \in 1..Len(counts) : counts[i].phrase = key
         IN  [counts EXCEPT ![at].count = @ + count]
    ELSE Append(counts, [phrase |-> key, count |-> count])

\* the loop of mergeDrafts over the source's phrase counts
RECURSIVE mergeCounts(_, _, _)
mergeCounts(counts, sourceCounts, i) ==
    IF i > Len(sourceCounts) THEN counts
    ELSE mergeCounts(mapAdd(counts, sourceCounts[i].phrase, sourceCounts[i].count),
                     sourceCounts, i + 1)

\* a merge that adds the counts and leaves the source's entries behind
mergeDraftsCountsOnly(target, source) ==
    [canonical |-> target.canonical,
     entries |-> target.entries,
     phraseCounts |-> mergeCounts(target.phraseCounts, source.phraseCounts, 1)]

mergeDrafts(target, source) ==
    [canonical |-> target.canonical,
     entries |-> target.entries \o source.entries,
     phraseCounts |-> mergeCounts(target.phraseCounts, source.phraseCounts, 1)]

\* postMap.get(id): the last post of the list with this id, or none
postLookup(posts, id) ==
    LET hits == {i \in 1..Len(posts) : posts[i].id = id}
    IN  IF hits = {} THEN <<>>
        ELSE <<posts[CHOOSE i \in hits : \A k \in hits : k <= i]>>

\* a loop turn that opens a new draft for every phrase, whatever its signature
addProblemApart(drafts, post, problem) ==
    Append(drafts, [canonical |-> problem.canonical,
                    entries |-> <<[post |-> post, phrase |-> problem]>>,
                    phraseCounts |-> <<[phrase |-> problem.phrase, count |-> 1]>>])

\* one turn of buildDrafts' loop
addProblem(drafts, post, problem) ==
    LET entry == [post |-> post, phrase |-> problem]
    IN  IF \E i \in 1..Len(drafts) : drafts[i].canonical = problem.canonical
        THEN LET at == CHOOSE i \in 1..Len(drafts) : drafts[i].canonical = problem.canonical
             IN  [drafts EXCEPT ![at] =
                    [canonical |-> @.canonical,
                     entries |-> Append(@.entries, entry),
                     phraseCounts |-> mapAdd(@.phraseCounts, problem.phrase, 1)]]
        ELSE Append(drafts, [canonical |-> problem.canonical,
                             entries |-> <<entry>>,
                             phraseCounts |-> <<[phrase |-> problem.phrase, count |-> 1]>>])

\* a loop that files the phrase of a missing post under the first post
RECURSIVE buildDraftsFromFallback(_, _, _, _)
buildDraftsFromFallback(posts, problems, i, drafts) ==
    IF i > Len(problems) THEN drafts
    ELSE LET post == postLookup(posts, problems[i].postId)
         IN  buildDraftsFromFallback(posts, problems, i + 1,
                                     addProblem(drafts,
                                                IF post = <<>> THEN posts[1] ELSE post[1],
                                                problems[i]))

RECURSIVE buildDraftsFrom(_, _, _, _)
buildDraftsFrom(posts, problems, i, drafts) ==
    IF i > Len(problems) THEN drafts
    ELSE LET post == postLookup(posts, problems[i].postId)
         IN  IF post = <<>> THEN buildDraftsFrom(posts, problems, i + 1, drafts)
             ELSE buildDraftsFrom(posts, problems, i + 1,
                                  addProblem(drafts, post[1], problems[i]))

buildDrafts(posts, problems) == buildDraftsFrom(posts, problems, 1, <<>>)

\* (a, b) => b.entries.length - a.entries.length
moreEntries(a, b) == Len(a.entries) > Len(b.entries)

\* (a, b) => b[1] - a[1]
moreCounted(a, b) == a.count > b.count

IsPrimary(entry) == entry.phrase.cueId \in PRIMARY_CUE_IDS

\* a comparator that looks at the length of the phrase only
longerEntry(a, b) == Len(b.phrase.phrase) - Len(a.phrase.phrase) < 0

\* the comparator of buildClusterPosts: primary cues first, then the longer phrase
strongerEntry(a, b) ==
    LET aPriority == IF IsPrimary(a) THEN 1 ELSE 0
        bPriority == IF IsPrimary(b) THEN 1 ELSE 0
    IN  IF aPriority # bPriority THEN bPriority - aPriority < 0
        ELSE Len(b.phrase.phrase) - Len(a.phrase.phrase) < 0

\* the comparator turned round: (a, b) => a.score - b.score
lowerScore(a, b) == a.score < b.score

\* (a, b) => b.score - a.score
higherScore(a, b) == a.score > b.score

\* the comparator a call of sort is given: TRUE when a goes before b
before(comparator, a, b) ==
    CASE comparator = "moreEntries" -> moreEntries(a, b)
      [] comparator = "moreCounted" -> moreCounted(a, b)
      [] comparator = "strongerEntry" -> strongerEntry(a, b)
      [] comparator = "higherScore" -> higherScore(a, b)

\* Array.prototype.sort (stable): x goes before the first element it precedes strictly
RECURSIVE insertBy(_, _, _, _)
insertBy(sorted, x, comparator, i) ==
    IF i > Len(sorted) THEN Append(sorted, x)
    ELSE IF before(comparator, x, sorted[i])
         THEN SubSeq(sorted, 1, i - 1) \o <<x>> \o SubSeq(sorted, i, Len(sorted))
         ELSE insertBy(sorted, x, comparator, i + 1)

RECURSIVE sortFromBy(_, _, _, _)
sortFromBy(items, i, sorted, comparator) ==
    IF i > Len(items) THEN sorted
    ELSE sortFromBy(items, i + 1, insertBy(sorted, items[i], comparator, 1), comparator)

sortBy(items, comparator) == sortFromBy(items, 1, <<>>, comparator)

\* the index of the first accepted draft similar to repr, or 0
\* score >= SIMILARITY_THRESHOLD
meetsThreshold(score) == score.n * 100 >= SIMILARITY_THRESHOLD * score.d

\* a scan that does not stop at the first similar draft: it yields the last one
RECURSIVE lastSimilarFrom(_, _, _)
lastSimilarFrom(merged, repr, k) ==
    IF k > Len(merged) THEN 0
    ELSE LET later == lastSimilarFrom(merged, repr, k + 1)
         IN  IF later > 0 THEN later
             ELSE IF meetsThreshold(similarity(toLowerCase(repr),
                                               toLowerCase(representativePhrase(merged[k]))))
                  THEN k
                  ELSE 0

RECURSIVE firstSimilarFrom(_, _, _)
firstSimilarFrom(merged, repr, k) ==
    IF k > Len(merged) THEN 0
    ELSE IF meetsThreshold(similarity(toLowerCase(repr),
                                      toLowerCase(representativePhrase(merged[k]))))
         THEN k
         ELSE firstSimilarFrom(merged, repr, k + 1)

firstSimilar(merged, repr) == firstSimilarFrom(merged, repr, 1)

\* mergeDrafts(mergedInto, draft) when a similar draft was found, merged.push(draft)
\* otherwise
mergeOrPush(merged, mergedInto, draft) ==
    IF mergedInto > 0
    THEN [merged EXCEPT ![mergedInto] = mergeDrafts(merged[mergedInto], draft)]
    ELSE Append(merged, draft)

\* the loop of mergeSimilarDrafts over the sorted drafts
RECURSIVE mergeFrom(_, _, _)
mergeFrom(sorted, i, merged) ==
    IF i > Len(sorted) THEN merged
    ELSE mergeFrom(sorted, i + 1,
            mergeOrPush(merged, firstSimilar(merged, representativePhrase(sorted[i])),
                        sorted[i]))

mergeSimilarDrafts(drafts) == mergeFrom(sortBy(drafts, "moreEntries"), 1, <<>>)

\* phrase.toLowerCase().replace(/[^a-z0-9\s]/g, " ")
stripToKeywordChars(s) ==
    [i \in 1..Len(s) |->
        IF IsLower(s[i]) \/ s[i] \in Digits \/ s[i] \in Whitespace THEN s[i] ELSE " "]

keywordTokens(phrase) ==
    without(splitWhitespace(stripToKeywordChars(toLowerCase(phrase)), 1, <<>>, <<>>),
            {<<>>} \cup KEYWORD_STOPWORDS)

\* words.set(token, (words.get(token) ?? 0) + 1) over the tokens of all phrases
RECURSIVE countTokens(_, _, _, _)
countTokens(phrases, p, i, counts) ==
    IF p > Len(phrases) THEN counts
    ELSE LET tokens == keywordTokens(phrases[p])
         IN  IF i > Len(tokens) THEN countTokens(phrases, p + 1, 1, counts)
             ELSE countTokens(phrases, p, i + 1, mapAdd(counts, tokens[i], 1))

RECURSIVE firstPhrases(_, _, _, _)
firstPhrases(ranked, limit, i, acc) ==
    IF i > Len(ranked) \/ i > limit THEN acc
    ELSE firstPhrases(ranked, limit, i + 1, Append(acc, ranked[i].phrase))

topKeywords(phrases, limit) ==
    firstPhrases(sortBy(countTokens(phrases, 1, 1, <<>>), "moreCounted"), limit, 1, <<>>)

phraseKeys(draft) == [i \in 1..Len(draft.phraseCounts) |-> draft.phraseCounts[i].phrase]

capitalize(word) == <<toUpperChar(word[1])>> \o Tail(word)

TitleLeadIns ==
    { <<"i">>, <<"w","e">>, <<"m","y">>, <<"o","u","r">>, <<"h","o","w"," ","t","o">>, <<"n","e","e","d"," ","t","o">>, <<"w","a","n","t"," ","t","o">>, <<"t","r","y","i","n","g"," ","t","o">> }

\* repr.replace(/^(i|we|my|our|how to|need to|want to|trying to)\s+/i, "")
stripLeadIn(s) ==
    LET hits == {c \in TitleLeadIns :
                    /\ StartsWith(toLowerCase(s), c)
                    /\ Len(s) > Len(c)
                    /\ s[Len(c) + 1] \in Whitespace}
    IN  IF hits = {} THEN s
        ELSE LET c == CHOOSE h \in hits : TRUE
             IN  trimStart(SubSeq(s, Len(c) + 1, Len(s)))

\* text.replace(/\?+$/, "")
RECURSIVE stripQuestionMarks(_)
stripQuestionMarks(s) ==
    IF Len(s) > 0 /\ s[Len(s)] = "?" THEN stripQuestionMarks(SubSeq(s, 1, Len(s) - 1)) ELSE s

generateIdeaTitle(draft, keywords) ==
    LET repr == representativePhrase(draft)
        mainKeywords == SubSeq(keywords, 1, Min2(3, Len(keywords)))
        has(set) == \E i \in 1..Len(mainKeywords) : mainKeywords[i] \in set
        automation == {<<"a","u","t","o","m","a","t","e">>, <<"a","u","t","o","m","a","t","i","o","n">>, <<"a","u","t","o","m","a","t","i","c">>}
        tools == {<<"t","o","o","l">>, <<"p","l","a","t","f","o","r","m">>, <<"a","p","p">>, <<"s","o","l","u","t","i","o","n">>}
        integrations == {<<"i","n","t","e","g","r","a","t","e">>, <<"s","y","n","c">>, <<"c","o","n","n","e","c","t">>}
        others == without(mainKeywords, integrations)
        subjects == without(mainKeywords, tools)
        cleanRepr == trim(stripQuestionMarks(stripLeadIn(repr)))
    IN  IF has(automation)
        THEN <<"A","u","t","o","m","a","t","e"," ">> \o join(without(mainKeywords, automation), <<" ">>, 1)
                \o <<" ","w","o","r","k","f","l","o","w","s">>
        ELSE IF has(tools)
        THEN IF Len(subjects) > 0 /\ subjects[1] # <<>>
             THEN capitalize(subjects[1]) \o <<" ","m","a","n","a","g","e","m","e","n","t"," ","t","o","o","l">>
             ELSE <<"W","o","r","k","f","l","o","w"," ","m","a","n","a","g","e","m","e","n","t"," ","t","o","o","l">>
        ELSE IF has(integrations)
        THEN join(SubSeq(others, 1, Min2(2, Len(others))), <<" ","a","n","d"," ">>, 1) \o <<" ","i","n","t","e","g","r","a","t","i","o","n">>
        ELSE IF has({<<"i","n","v","o","i","c","e">>}) THEN <<"I","n","v","o","i","c","e"," ","p","r","o","c","e","s","s","i","n","g"," ","a","u","t","o","m","a","t","i","o","n">>
        ELSE IF has({<<"e","m","a","i","l">>}) THEN <<"E","m","a","i","l"," ","w","o","r","k","f","l","o","w"," ","a","u","t","o","m","a","t","i","o","n">>
        ELSE IF has({<<"s","h","e","e","t">>, <<"s","p","r","e","a","d","s","h","e","e","t">>}) THEN <<"S","p","r","e","a","d","s","h","e","e","t"," ","a","u","t","o","m","a","t","i","o","n"," ","t","o","o","l">>
        ELSE IF has({<<"t","h","u","m","b","n","a","i","l">>}) THEN <<"T","h","u","m","b","n","a","i","l"," ","g","e","n","e","r","a","t","i","o","n"," ","a","u","t","o","m","a","t","i","o","n">>
        ELSE IF has({<<"g","i","t","h","u","b">>}) THEN <<"G","i","t","H","u","b"," ","w","o","r","k","f","l","o","w"," ","a","u","t","o","m","a","t","i","o","n">>
        ELSE IF has({<<"j","i","r","a">>}) THEN <<"J","i","r","a"," ","t","a","s","k"," ","a","u","t","o","m","a","t","i","o","n">>
        ELSE IF Len(cleanRepr) > 3 /\ Len(cleanRepr) < 50 THEN capitalizeFirst(cleanRepr)
        ELSE IF Len(mainKeywords) > 0 THEN capitalize(mainKeywords[1]) \o <<" ","a","u","t","o","m","a","t","i","o","n"," ","t","o","o","l">>
        ELSE <<"W","o","r","k","f","l","o","w"," ","a","u","t","o","m","a","t","i","o","n"," ","t","o","o","l">>

\* the post ids of the entries with their repetitions
entryPostIdsRepeated(entries) == [i \in 1..Len(entries) |-> entries[i].post.id]

\* the post ids of the entries, each once, in order of first appearance
entryPostIds(entries) ==
    uniqueTokens([i \in 1..Len(entries) |-> entries[i].post.id], 1, <<>>)

\* entries.filter((entry) => entry.post.id === postId)
RECURSIVE entriesOfPostFrom(_, _, _, _)
entriesOfPostFrom(entries, postId, i, acc) ==
    IF i > Len(entries) THEN acc
    ELSE entriesOfPostFrom(entries, postId, i + 1,
            IF entries[i].post.id = postId THEN Append(acc, entries[i]) ELSE acc)

entriesOfPost(entries, postId) == entriesOfPostFrom(entries, postId, 1, <<>>)

\* the ClusterPost of one post id: the strongest of the post's entries
clusterPostOf(entries, postId) ==
    LET chosen == sortBy(entriesOfPost(entries, postId), "strongerEntry")[1]
    IN  [id |-> postId,
         subreddit |-> chosen.post.subreddit,
         url |-> chosen.post.url,
         title |-> chosen.post.title,
         createdDay |-> chosen.post.createdDay,
         upvotes |-> chosen.post.upvotes,
         comments |-> chosen.post.comments,
         author |-> chosen.post.author,
         matchedSnippet |-> chosen.phrase.snippet,
         problemPhrase |-> chosen.phrase.phrase]

RECURSIVE clusterPostsFrom(_, _, _, _)
clusterPostsFrom(entries, ids, k, acc) ==
    IF k > Len(ids) THEN acc
    ELSE clusterPostsFrom(entries, ids, k + 1, Append(acc, clusterPostOf(entries, ids[k])))

buildClusterPosts(draft) ==
    clusterPostsFrom(draft.entries, entryPostIds(draft.entries), 1, <<>>)

\* the score of one cluster post, as the loop of clusterIdeas computes it
clusterPostScore(draft, clusterPost, now) ==
    LET own == entriesOfPost(draft.entries, clusterPost.id)
        post == own[1].post
        patternMatched == \E i \in 1..Len(own) : IsPrimary(own[i])
    IN  computePostScore(post, patternMatched, clusterPost.problemPhrase, now).postScore

\* the IdeaCluster built from one merged draft and its cluster posts
ideaCluster(draft, clusterPosts, windowDays, now, title) ==
    LET postScores == [i \in 1..Len(clusterPosts) |->
                            clusterPostScore(draft, clusterPosts[i], now)]
        uniqueSubreddits == Cardinality({clusterPosts[i].subreddit : i \in 1..Len(clusterPosts)})
        trend == computeTrend(clusterPosts, windowDays, now)
    IN  [id |-> <<"i","d","e","a","_">> \o hashCanonical(draft.canonical \o <<"_">> \o decimal(windowDays)),
         title |-> title,
         canonical |-> draft.canonical,
         phrases |-> phraseKeys(draft),
         posts |-> clusterPosts,
         score |-> toFixed2(computeIdeaScore(postScores, uniqueSubreddits).ideaScore),
         postsCount |-> Len(clusterPosts),
         subsCount |-> uniqueSubreddits,
         upvotesSum |-> SumSeq([i \in 1..Len(clusterPosts) |-> clusterPosts[i].upvotes], 1),
         commentsSum |-> SumSeq([i \in 1..Len(clusterPosts) |-> clusterPosts[i].comments], 1),
         trend |-> trend.bins,
         topKeywords |-> topKeywords(phraseKeys(draft), 5),
         sampleSnippet |-> clusterPosts[1].matchedSnippet,
         trendSlope |-> trend.slope]

\* a cluster of fewer than MIN_CLUSTER_SIZE posts is passed over
emitsDraft(clusterPosts) ==
    ~(Len(clusterPosts) = 0 \/ Len(clusterPosts) < MIN_CLUSTER_SIZE)

\* the first half of clusterIdeas: grouping and merging
draftsOf(posts, problems) ==
    IF Len(problems) = 0 THEN <<>> ELSE mergeSimilarDrafts(buildDrafts(posts, problems))

\* the second half of clusterIdeas: the loop over the merged drafts and the sort
RECURSIVE clustersFrom(_, _, _, _, _)
clustersFrom(drafts, i, windowDays, now, acc) ==
    IF i > Len(drafts) THEN acc
    ELSE LET draft == drafts[i]
             clusterPosts == buildClusterPosts(draft)
         IN  IF ~emitsDraft(clusterPosts)
             THEN clustersFrom(drafts, i + 1, windowDays, now, acc)
             ELSE clustersFrom(drafts, i + 1, windowDays, now,
                    Append(acc, ideaCluster(draft, clusterPosts, windowDays, now,
                                    generateIdeaTitle(draft,
                                        topKeywords(phraseKeys(draft), 5)))))

clusterIdeas(drafts, windowDays, now) ==
    sortBy(clustersFrom(drafts, 1, windowDays, now, <<>>), "higherScore")

(***************************************************************************)
(* src/unnamed/part_004: the second copy of the clustering module, which   *)
(* differs in the size gate and the title                                  *)
(***************************************************************************)
RECURSIVE clustersFromNoGate(_, _, _, _, _)
clustersFromNoGate(drafts, i, windowDays, now, acc) ==
    IF i > Len(drafts) THEN acc
    ELSE LET draft == drafts[i]
             clusterPosts == buildClusterPosts(draft)
         IN  IF Len(clusterPosts) = 0
             THEN clustersFromNoGate(drafts, i + 1, windowDays, now, acc)
             ELSE clustersFromNoGate(drafts, i + 1, windowDays, now,
                    Append(acc, ideaCluster(draft, clusterPosts, windowDays, now,
                                    representativePhrase(draft))))

clusterIdeasNoGate(drafts, windowDays, now) ==
    sortBy(clustersFromNoGate(drafts, 1, windowDays, now, <<>>), "higherScore")

(***************************************************************************)
(* The similarity functions applied to bounded arguments                   *)
(***************************************************************************)
MaxSimLen == 5

SimAlphabet == {"a", "b"}

SimExamples ==
    { <<"m","e","e","t","i","n","g">>, <<"m","e","t","i","n","g">>,
      <<"a","u","t","o","m","a","t","i","o","n">>, <<"a","u","t","o","m","a","t","e">>,
      <<"A","b">>, <<"a","B">> }

SimStrings == SeqsUpTo(SimAlphabet, MaxSimLen) \cup SimExamples

SimInit ==
    /\ simA \in SimStrings
    /\ simB \in SimStrings
    /\ simOut = None
    /\ textIn = <<>> /\ textOut = None
    /\ ClusterIdle
    /\ IoIdle
    /\ CallIdle

DiceCoefficient ==
    /\ simOut = None
    /\ simOut' = [fn |-> "dice", val |-> diceCoefficient(simA, simB)]
    /\ UNCHANGED <<simA, simB, textVars, clusterVars, callVars, ioVars>>

JaroDistance ==
    /\ simOut = None
    /\ simOut' = [fn |-> "jaro", val |-> jaroDistance(simA, simB)]
    /\ UNCHANGED <<simA, simB, textVars, clusterVars, callVars, ioVars>>

JaroWinklerDistance ==
    /\ simOut = None
    /\ simOut' = [fn |-> "jaroWinkler", val |-> jaroWinklerDistance(simA, simB)]
    /\ UNCHANGED <<simA, simB, textVars, clusterVars, callVars, ioVars>>

SimNext == DiceCoefficient \/ JaroDistance \/ JaroWinklerDistance

SpecSimilarity == SimInit /\ [][SimNext]_vars

(***************************************************************************)
(* The clustering pipeline applied to bounded inputs                       *)
(***************************************************************************)
MaxProblems == 4

\* times are whole days; a post's createdUtc is createdDay * 86400 seconds
InputPosts ==
    << [id |-> "1", subreddit |-> "entrepreneur", url |-> "https://reddit.com/1",
        title |-> <<"h","a","r","d"," ","c","s","v"," ","s","y","n","c">>, selftext |-> <<>>, createdDay |-> 100,
        upvotes |-> 10, comments |-> 2, author |-> "u/a"],
       [id |-> "2", subreddit |-> "productivity", url |-> "https://reddit.com/2",
        title |-> <<"s","y","n","c"," ","i","s","s","u","e">>, selftext |-> <<"H","a","r","d"," ","p","r","o","b","l","e","m">>, createdDay |-> 97,
        upvotes |-> 8, comments |-> 0, author |-> "u/b"],
       [id |-> "3", subreddit |-> "entrepreneur", url |-> "https://reddit.com/3",
        title |-> <<"f","i","x"," ","b","u","g">>, selftext |-> <<>>, createdDay |-> 80,
        upvotes |-> 0, comments |-> 1, author |-> "u/c"] >>

\* the stored phrases the calls draw from; post 9 is not among the posts
ProblemPool ==
    { [postId |-> "1", phrase |-> <<"C","s","v"," ","s","y","n","c">>, canonical |-> <<"c","s","v","_","s","y","n","c">>,
       snippet |-> <<"h","a","r","d"," ","c","s","v"," ","s","y","n","c">>, cueId |-> "how_do_i"],
      [postId |-> "2", phrase |-> <<"C","s","v"," ","s","y","n","c">>, canonical |-> <<"c","s","v","_","s","y","n","c">>,
       snippet |-> <<"s","y","n","c"," ","i","s","s","u","e">>, cueId |-> "llm_detected"],
      [postId |-> "1", phrase |-> <<"c","s","v"," ","s","y","n","c","s">>, canonical |-> <<"c","s","v","_","s","y","n","c","s">>,
       snippet |-> <<"h","a","r","d"," ","c","s","v"," ","s","y","n","c">>, cueId |-> "llm_detected"],
      [postId |-> "2", phrase |-> <<"F","i","x"," ","b","u","g">>, canonical |-> <<"b","u","g","_","f","i","x">>,
       snippet |-> <<"s","y","n","c"," ","i","s","s","u","e">>, cueId |-> "llm_detected"],
      [postId |-> "3", phrase |-> <<"F","i","x"," ","b","u","g">>, canonical |-> <<"b","u","g","_","f","i","x">>,
       snippet |-> <<"f","i","x"," ","b","u","g">>, cueId |-> "llm_detected"],
      [postId |-> "9", phrase |-> <<"C","s","v"," ","s","y","n","c">>, canonical |-> <<"c","s","v","_","s","y","n","c">>,
       snippet |-> <<"g","o","n","e">>, cueId |-> "how_do_i"],
      [postId |-> "2", phrase |-> <<"S","y","n","c"," ","t","h","e"," ","c","s","v">>, canonical |-> <<"c","s","v","_","s","y","n","c">>,
       snippet |-> <<"s","y","n","c"," ","i","s","s","u","e">>, cueId |-> "sync"] }

RECURSIVE DistinctSeqs(_, _)
DistinctSeqs(S, n) ==
    IF n = 0 THEN {<<>>}
    ELSE LET shorter == DistinctSeqs(S, n - 1)
         IN  shorter \cup UNION {{Append(s, x) : x \in S \ Range(s)} :
                                    s \in {t \in shorter : Len(t) = n - 1}}

WindowChoices == {30}

Clock == {101, 125}

Init ==
    /\ argPosts = InputPosts
    /\ argProblems \in DistinctSeqs(ProblemPool, MaxProblems)
    /\ argWindowDays \in WindowChoices
    /\ dateNow = 0
    /\ mergedDrafts = <<>>
    /\ clusters = NotRun
    /\ simA = <<>> /\ simB = <<>> /\ simOut = None
    /\ textIn = <<>> /\ textOut = None
    /\ CallIdle
    /\ IoIdle

\* a call of clusterIdeas (part_003) when the clock reads t
ClusterIdeas ==
    /\ \E t \in Clock :
        /\ t >= dateNow
        /\ dateNow' = t
        /\ mergedDrafts' = draftsOf(argPosts, argProblems)
        /\ clusters' = [impl |-> "part_003",
                        ideas |-> clusterIdeas(mergedDrafts', argWindowDays, t)]
    /\ UNCHANGED <<argPosts, argProblems, argWindowDays, simVars, textVars, callVars, ioVars>>

\* a call of the second copy (part_004)
ClusterIdeasNoGate ==
    /\ \E t \in Clock :
        /\ t >= dateNow
        /\ dateNow' = t
        /\ mergedDrafts' = draftsOf(argPosts, argProblems)
        /\ clusters' = [impl |-> "part_004",
                        ideas |-> clusterIdeasNoGate(mergedDrafts', argWindowDays, t)]
    /\ UNCHANGED <<argPosts, argProblems, argWindowDays, simVars, textVars, callVars, ioVars>>

Next == ClusterIdeas \/ ClusterIdeasNoGate

Spec == Init /\ [][Next]_vars

(***************************************************************************)
(* Claims about the similarity functions (SpecSimilarity)                  *)
(***************************************************************************)
\* the length of the longest common prefix of a and b, stated without the loop
LongestCommonPrefix(a, b) ==
    LET ks == {k \in 0..Min2(Len(a), Len(b)) : \A i \in 1..k : a[i] = b[i]}
    IN  CHOOSE k \in ks : \A l \in ks : l <= k

\* C9: diceCoefficient and jaroWinklerDistance return 1 for every pair of
\* identical non-empty strings and 0 whenever at least one input is empty.
C9_IdenticalOneEmptyZero ==
    simOut.fn \in {"dice", "jaroWinkler"} =>
        /\ (simA = simB /\ Len(simA) > 0) => REq(simOut.val, One)
        /\ (Len(simA) = 0 \/ Len(simB) = 0) => REq(simOut.val, Zero)

\* C10: jaroWinklerDistance(a, b) >= jaroDistance(a, b), both lie in [0, 1],
\* and the boost is (common prefix, at most 4 characters) * 0.1 * (1 - jaro).
C10_WinklerBoost ==
    simOut.fn = "jaroWinkler" =>
        LET jaro == jaroDistance(simA, simB)
            jw == simOut.val
            p == Min2(LongestCommonPrefix(simA, simB), 4)
        IN  /\ RLeq(jaro, jw)
            /\ RLeq(Zero, jaro) /\ RLeq(jaro, One)
            /\ RLeq(Zero, jw) /\ RLeq(jw, One)
            /\ jaro.d > 0 /\ jw.d > 0
            /\ REq(jw, Rat(10 * jaro.n + p * (jaro.d - jaro.n), 10 * jaro.d))

\* two different strings sharing more than 4 leading characters, boosted
C10_Witness ==
    /\ simOut.fn = "jaroWinkler"
    /\ simA # simB
    /\ LongestCommonPrefix(simA, simB) > 4
    /\ ~RLeq(simOut.val, jaroDistance(simA, simB))

(***************************************************************************)
(* The text functions applied to bounded texts                             *)
(***************************************************************************)
MaxTextLen == 4

TextAlphabet == {"a", "n", "s", " ", "N", "!"}

ExamplePhrase ==
    <<"t","u","r","n","i","n","g"," ","m","e","e","t","i","n","g"," ","n","o","t","e","s"," ",
      "i","n","t","o"," ","j","i","r","a"," ","t","a","s","k","s">>

TextExamples ==
    { ExamplePhrase,
      <<"T","h","i","s"," ","i","s"," ","t","h","a","t">>,
      <<"t","o"," ","s","y","n","c"," ","C","S","V","s","?">>,
      <<"?"," ","f","o","r"," "," ","t","h","e"," ","-"," ","t","h","e">>,
      <<"s"," ","a"," ","n"," ","s">> }

Texts == SeqsUpTo(TextAlphabet, MaxTextLen) \cup TextExamples

\* the post handed to extractProblemsWithLLM
LlmPost == [id |-> "p1", title |-> <<"n","a","n","s">>]

\* confidence values of the answer, in tenths
Confidences == {3, 9}

CueIds == {"how_do_i", "workflow"}

TextInit ==
    /\ textIn \in Texts
    /\ textOut = None
    /\ simA = <<>> /\ simB = <<>> /\ simOut = None
    /\ ClusterIdle
    /\ IoIdle
    /\ CallIdle

CanonicalizePhrase ==
    /\ textOut = None
    /\ textOut' = [fn |-> "canonicalizePhrase", val |-> canonicalizePhrase(textIn)]
    /\ UNCHANGED <<textIn, simVars, clusterVars, callVars, ioVars>>

\* the sentence is textIn; the clause is left out or is a tail of the sentence
ExtractFromCue ==
    /\ textOut = None
    /\ \E cueId \in CueIds :
       \E clause \in {<<>>} \cup {<<SubSeq(textIn, k, Len(textIn))>> : k \in 2..Len(textIn)} :
            textOut' = [fn |-> "extractFromCue",
                        phrases |-> extractFromCue(textIn, cueId, clause)]
    /\ UNCHANGED <<textIn, simVars, clusterVars, callVars, ioVars>>

\* the model's answer names textIn as the problem statement
ExtractProblemsWithLLM ==
    /\ textOut = None
    /\ \E actionable \in BOOLEAN, confidence \in Confidences :
            textOut' = [fn |-> "extractProblemsWithLLM",
                        phrases |-> extractProblemsWithLLM(LlmPost,
                                        [isActionableProblem |-> actionable,
                                         confidence |-> confidence,
                                         problemStatement |-> textIn])]
    /\ UNCHANGED <<textIn, simVars, clusterVars, callVars, ioVars>>

TextNext == CanonicalizePhrase \/ ExtractFromCue \/ ExtractProblemsWithLLM

SpecText == TextInit /\ [][TextNext]_vars

(***************************************************************************)
(* Claims about canonicalization and extraction (SpecText)                 *)
(***************************************************************************)
\* the pieces of a signature between underscores
RECURSIVE SplitUnderscore(_, _, _, _)
SplitUnderscore(s, i, cur, acc) ==
    IF i > Len(s) THEN Append(acc, cur)
    ELSE IF s[i] = "_" THEN SplitUnderscore(s, i + 1, <<>>, Append(acc, cur))
    ELSE SplitUnderscore(s, i + 1, Append(cur, s[i]), acc)

SignatureTokens(sig) == IF sig = <<>> THEN <<>> ELSE SplitUnderscore(sig, 1, <<>>, <<>>)

\* the character of the phrase after lower-casing and stripping, stated per position
NormalChar(c) ==
    LET l == toLowerChar(c)
    IN  IF IsLower(l) \/ l \in Digits \/ l \in {"'", "-"} THEN l ELSE " "

\* the tokens that survive: the maximal runs of non-blank normal characters of the
\* phrase that are not stopwords
SurvivingTokens(phrase) ==
    LET n == Len(phrase)
        norm == [i \in 1..n |-> NormalChar(phrase[i])]
        runs == {<<i, j>> \in (1..n) \X (1..n) :
                    /\ i <= j
                    /\ \A k \in i..j : norm[k] # " "
                    /\ (i = 1 \/ norm[i - 1] = " ")
                    /\ (j = n \/ norm[j + 1] = " ")}
    IN  {SubSeq(norm, r[1], r[2]) : r \in runs} \ STOPWORDS

Note == <<"n","o","t","e">>

Notes == <<"n","o","t","e","s">>

Into == <<"i","n","t","o">>

\* C6: canonicalizePhrase stems every non-stopword token: the signature of the
\* example phrase contains note, not notes, not into, and no token of any
\* signature is a form that stemWord would change.
C6_SignatureIsStemmed ==
    textOut.fn = "canonicalizePhrase" =>
        LET toks == Range(SignatureTokens(textOut.val))
        IN  /\ textIn = ExamplePhrase =>
                (Note \in toks /\ Notes \notin toks /\ Into \notin toks)
            /\ \A t \in toks : stemWord(t) = t

\* C7: the signature is empty exactly when no token survives lower-casing,
\* stripping and stopword removal; otherwise it is the surviving tokens, each
\* once, in ascending order, joined by underscores.
C7_SignatureShape ==
    textOut.fn = "canonicalizePhrase" =>
        LET sig == textOut.val
            toks == SignatureTokens(sig)
            surviving == SurvivingTokens(textIn)
        IN  /\ (sig = <<>>) <=> (surviving = {})
            /\ Range(toks) = surviving
            /\ \A i \in 1..Len(toks) : toks[i] # <<>>
            /\ \A i \in 1..(Len(toks) - 1) : StrLess(toks[i], toks[i + 1])

\* a phrase with a stopword, a repeated token and two tokens given in descending order
C7_Witness ==
    /\ textOut.fn = "canonicalizePhrase"
    /\ textOut.val = <<"n", "_", "s">>
    /\ textIn = <<"s", " ", "a", " ", "n", " ", "s">>

\* C8: no ProblemPhrase returned by extractFromCue or extractProblemsWithLLM has
\* an empty canonical signature.
C8_NoEmptyCanonical ==
    textOut.fn \in {"extractFromCue", "extractProblemsWithLLM"} =>
        \A i \in 1..Len(textOut.phrases) : textOut.phrases[i].canonical # <<>>

(***************************************************************************)
(* Claims about the clustering pipeline (Spec)                             *)
(***************************************************************************)
\* the merged draft a returned cluster was built from
DraftOf(cluster) == CHOOSE d \in Range(mergedDrafts) : d.canonical = cluster.canonical

DraftIndexOf(cluster) ==
    CHOOSE i \in 1..Len(mergedDrafts) : mergedDrafts[i].canonical = cluster.canonical

\* the ids of the input posts
PresentIds == {argPosts[i].id : i \in 1..Len(argPosts)}

\* C1: every IdeaCluster returned by clusterIdeas has postsCount >= 2; a merged
\* draft resolving to fewer than 2 distinct post ids is never emitted.
C1_MinimumClusterSize ==
    \A i \in 1..Len(clusters.ideas) : clusters.ideas[i].postsCount >= 2

\* C2: for every returned IdeaCluster, postsCount equals the length of its
\* posts list and the number of distinct post ids among the draft's entries,
\* and no post id appears twice in the cluster's posts.
C2_PostsCountDistinctPosts ==
    \A i \in 1..Len(clusters.ideas) :
        LET c == clusters.ideas[i]
            d == DraftOf(c)
        IN  /\ c.postsCount = Len(c.posts)
            /\ c.postsCount = Cardinality({d.entries[e].post.id : e \in 1..Len(d.entries)})
            /\ \A p, q \in 1..Len(c.posts) : p # q => c.posts[p].id # c.posts[q].id

\* a returned cluster whose draft took in another draft by a merge and holds
\* more entries than posts
C2_Witness ==
    \E i \in 1..Len(clusters.ideas) :
        LET c == clusters.ideas[i]
            d == DraftOf(c)
        IN  /\ c.postsCount >= 2
            /\ Len(d.entries) > c.postsCount
            /\ Cardinality({d.entries[e].phrase.canonical : e \in 1..Len(d.entries)}) >= 2

\* C3: phrases that share a canonical signature are placed in the same cluster;
\* when all input phrases share one signature and reference k >= 2 distinct
\* posts present in the input, exactly 1 cluster is returned and its
\* postsCount is k.
C3_SameSignatureOneCluster ==
    clusters.impl # "none" =>
        LET present == {i \in 1..Len(argProblems) : argProblems[i].postId \in PresentIds}
            signatures == {argProblems[i].canonical : i \in 1..Len(argProblems)}
            k == Cardinality({argProblems[i].postId : i \in present})
        IN  /\ \A i, j \in present :
                    argProblems[i].canonical = argProblems[j].canonical =>
                        \E d \in Range(mergedDrafts) :
                            {argProblems[i], argProblems[j]}
                                \subseteq {d.entries[e].phrase : e \in 1..Len(d.entries)}
            /\ (Cardinality(signatures) = 1 /\ k >= 2) =>
                    /\ Len(clusters.ideas) = 1
                    /\ clusters.ideas[1].postsCount = k

\* a call whose phrases all share one signature, worded in two ways, over two posts
C3_Witness ==
    /\ clusters.impl # "none"
    /\ Len(argProblems) >= 3
    /\ Cardinality({argProblems[i].canonical : i \in 1..Len(argProblems)}) = 1
    /\ Cardinality({argProblems[i].phrase : i \in 1..Len(argProblems)}) >= 2
    /\ Len(clusters.ideas) = 1
    /\ clusters.ideas[1].postsCount = 2

\* C4: clusterIdeas is deterministic: two invocations with identical posts,
\* problems and windowDays return the same list of clusters (membership, order,
\* scores, trend bins and slope).
C4_SameArgumentsSameClusters ==
    [][(clusters.impl = "part_003" /\ clusters'.impl = "part_003"
            /\ argPosts' = argPosts /\ argProblems' = argProblems
            /\ argWindowDays' = argWindowDays)
        => clusters'.ideas = clusters.ideas]_vars

\* C5: the returned list is ordered by score descending: each cluster's
\* 2-decimal score is >= the score of the cluster after it.
C5_ScoreDescending ==
    \A i \in 1..(Len(clusters.ideas) - 1) :
        clusters.ideas[i].score >= clusters.ideas[i + 1].score

\* two returned clusters of different scores that the sort has exchanged
C5_Witness ==
    /\ Len(clusters.ideas) >= 2
    /\ clusters.ideas[1].score > clusters.ideas[2].score
    /\ DraftIndexOf(clusters.ideas[1]) > DraftIndexOf(clusters.ideas[2])
(***************************************************************************)
(* The scoring functions on their own: computePostScore, computeIdeaScore  *)
(***************************************************************************)
MaxPostScores == 2

MaxSubreddits == 7

ScoreUpvotes == {-1, 0, 1, 5, 20}

ScoreComments == {-1, 0, 2, 20}

\* days of creation on both sides of the clock readings
ScoreCreatedDays == {41, 70, 99, 100, 101, 103}

ScoreClock == {100, 101}

ScoreTitles == {<<"h","a","r","d"," ","s","y","n","c">>, <<"f","i","x"," ","b","u","g">>}

ScorePhrases == {<<"a","u","t","o","m","a","t","e"," ","c","s","v">>, <<"f","i","x"," ","b","u","g">>}

ScoreValues == {0, 693, 2500}

PostScoreCalls ==
    [fn : {"computePostScore"},
     post : [upvotes : ScoreUpvotes, comments : ScoreComments,
             createdDay : ScoreCreatedDays, title : ScoreTitles, selftext : {<<>>}],
     patternMatched : BOOLEAN,
     representativePhrase : ScorePhrases,
     now : ScoreClock]

IdeaScoreCalls ==
    [fn : {"computeIdeaScore"},
     postScores : SeqsUpTo(ScoreValues, MaxPostScores),
     uniqueSubreddits : 1..MaxSubreddits]

ScoreInit ==
    /\ callIn \in PostScoreCalls \cup IdeaScoreCalls
    /\ callOut = None
    /\ simA = <<>> /\ simB = <<>> /\ simOut = None
    /\ textIn = <<>> /\ textOut = None
    /\ ClusterIdle
    /\ IoIdle

ComputePostScore ==
    /\ callOut = None
    /\ callIn.fn = "computePostScore"
    /\ callOut' = [fn |-> "computePostScore",
                   val |-> computePostScore(callIn.post, callIn.patternMatched,
                                            callIn.representativePhrase, callIn.now)]
    /\ UNCHANGED <<callIn, simVars, textVars, clusterVars, ioVars>>

ComputeIdeaScore ==
    /\ callOut = None
    /\ callIn.fn = "computeIdeaScore"
    /\ callOut' = [fn |-> "computeIdeaScore",
                   val |-> computeIdeaScore(callIn.postScores, callIn.uniqueSubreddits)]
    /\ UNCHANGED <<callIn, simVars, textVars, clusterVars, ioVars>>

ScoreNext == ComputePostScore \/ ComputeIdeaScore

SpecScore == ScoreInit /\ [][ScoreNext]_vars

(***************************************************************************)
(* C11: the post score against upvotes, comments and age                   *)
(***************************************************************************)
\* the score of the post of the call with these three fields replaced
postScoreWith(upvotes, comments, createdDay) ==
    computePostScore([callIn.post EXCEPT !.upvotes = upvotes, !.comments = comments,
                                         !.createdDay = createdDay],
                     callIn.patternMatched, callIn.representativePhrase,
                     callIn.now).postScore

\* the score does not fall when the upvotes or the comments grow
NonDecreasingInCounts ==
    /\ \A up \in ScoreUpvotes :
            up >= callIn.post.upvotes
                => postScoreWith(up, callIn.post.comments, callIn.post.createdDay)
                        >= callOut.val.postScore
    /\ \A cm \in ScoreComments :
            cm >= callIn.post.comments
                => postScoreWith(callIn.post.upvotes, cm, callIn.post.createdDay)
                        >= callOut.val.postScore

\* C11 (as stated): with the other arguments fixed, postScore is non-decreasing in
\* upvotes and in comments, and strictly decreasing in the age now - createdUtc
C11_StrictlyDecreasingInAge ==
    (callOut # None /\ callOut.fn = "computePostScore") =>
        /\ NonDecreasingInCounts
        /\ \A created \in ScoreCreatedDays :
                callIn.now - created > callIn.now - callIn.post.createdDay
                    => postScoreWith(callIn.post.upvotes, callIn.post.comments, created)
                            < callOut.val.postScore

\* C11 (amended): postScore is non-decreasing in upvotes and in comments; it is
\* strictly lower for the older of two posts when the older one was created before
\* now, and the same for all posts created at or after now (their age is clamped to 0)
C11_StrictlyDecreasingFromAgeZero ==
    (callOut # None /\ callOut.fn = "computePostScore") =>
        /\ NonDecreasingInCounts
        /\ \A created \in ScoreCreatedDays :
                /\ (created < callIn.post.createdDay /\ created < callIn.now)
                        => postScoreWith(callIn.post.upvotes, callIn.post.comments, created)
                                < callOut.val.postScore
                /\ (created >= callIn.now /\ callIn.post.createdDay >= callIn.now)
                        => postScoreWith(callIn.post.upvotes, callIn.post.comments, created)
                                = callOut.val.postScore

\* a post created after now has been scored: one created later still scores the same,
\* one created before now scores less, one with more upvotes scores more
C11_Witness ==
    /\ callOut # None /\ callOut.fn = "computePostScore"
    /\ callIn.post.createdDay = 101 /\ callIn.now = 100
    /\ callOut.val.ageDays = 0
    /\ postScoreWith(callIn.post.upvotes, callIn.post.comments, 103) = callOut.val.postScore
    /\ postScoreWith(callIn.post.upvotes, callIn.post.comments, 99) < callOut.val.postScore
    /\ callIn.post.upvotes = 1
    /\ postScoreWith(5, callIn.post.comments, 101) > callOut.val.postScore

(***************************************************************************)
(* C12: the idea score against the number of subreddits                    *)
(***************************************************************************)
\* the idea score of the same list with one more subreddit
ideaScoreOneMore ==
    computeIdeaScore(callIn.postScores, callIn.uniqueSubreddits + 1).ideaScore

\* C12 (as stated): for any fixed list of postScores, ideaScore strictly increases
\* each time uniqueSubreddits grows by one from 1 up to 6 and is the same from 6 on
C12_DiversityStrictUpToSix ==
    (callOut # None /\ callOut.fn = "computeIdeaScore") =>
        /\ callIn.uniqueSubreddits < 6 => ideaScoreOneMore > callOut.val.ideaScore
        /\ callIn.uniqueSubreddits >= 6 => ideaScoreOneMore = callOut.val.ideaScore

\* C12 (amended): for any fixed list of postScores whose sum is positive, ideaScore
\* strictly increases each time uniqueSubreddits grows by one from 1 up to 6; for
\* any list it is the same from 6 on, where the diversity multiplier is 1.5
C12_DiversityStrictForPositiveSum ==
    (callOut # None /\ callOut.fn = "computeIdeaScore") =>
        /\ (callIn.uniqueSubreddits < 6 /\ callOut.val.sumPost > 0)
                => ideaScoreOneMore > callOut.val.ideaScore
        /\ callIn.uniqueSubreddits >= 6
                => /\ ideaScoreOneMore = callOut.val.ideaScore
                   /\ callOut.val.diversity = 15

\* a list of positive sum has been scored for 5 subreddits, below the cap
C12_Witness ==
    /\ callOut # None /\ callOut.fn = "computeIdeaScore"
    /\ callIn.uniqueSubreddits = 5
    /\ callOut.val.sumPost > 0
    /\ callOut.val.diversity = 14
    /\ ideaScoreOneMore > callOut.val.ideaScore
(***************************************************************************)
(* computeTrend on its own                                                 *)
(***************************************************************************)
MaxTrendPosts == 2

\* the clock reading of the calls, in days
TrendClock == {100}

\* posts created after now, now, and 3, 6, 7, 8, 13, 14, 15 and 30 days before
TrendCreatedDays == {101, 100, 97, 94, 93, 92, 87, 86, 85, 70}

TrendWindows == {-1, 0, 1, 6, 7, 8, 14, 21, 30}

TrendCalls ==
    [fn : {"computeTrend"},
     posts : SeqsUpTo([createdDay : TrendCreatedDays], MaxTrendPosts),
     windowDays : TrendWindows,
     now : TrendClock]

TrendInit ==
    /\ callIn \in TrendCalls
    /\ callOut = None
    /\ simA = <<>> /\ simB = <<>> /\ simOut = None
    /\ textIn = <<>> /\ textOut = None
    /\ ClusterIdle
    /\ IoIdle

ComputeTrend ==
    /\ callOut = None
    /\ callIn.fn = "computeTrend"
    /\ callOut' = [fn |-> "computeTrend",
                   val |-> computeTrend(callIn.posts, callIn.windowDays, callIn.now)]
    /\ UNCHANGED <<callIn, simVars, textVars, clusterVars, ioVars>>

TrendNext == ComputeTrend

SpecTrend == TrendInit /\ [][TrendNext]_vars

(***************************************************************************)
(* C13: every post of the window is counted in one bucket                  *)
(***************************************************************************)
\* the posts of the call that are not older than the window
PostsInWindow ==
    {i \in 1..Len(callIn.posts) :
        ageDaysOf(callIn.posts[i].createdDay, callIn.now) <= callIn.windowDays}

\* the buckets after this post alone
binsOfPost(i) == computeTrend(<<callIn.posts[i]>>, callIn.windowDays, callIn.now).bins

\* C13: every post with age <= windowDays increments exactly one bucket, whose index
\* is in [0, weeks-1]; an older post increments none; the bucket counts sum to the
\* number of posts with age <= windowDays
C13_EveryWindowPostCounted ==
    (callOut # None /\ callOut.fn = "computeTrend") =>
        /\ Len(callOut.val.bins) = weeksOf(callIn.windowDays)
        /\ \A i \in 1..Len(callIn.posts) :
                /\ i \in PostsInWindow => SumSeq(binsOfPost(i), 1) = 1
                /\ i \notin PostsInWindow => SumSeq(binsOfPost(i), 1) = 0
        /\ SumSeq(callOut.val.bins, 1) = Cardinality(PostsInWindow)

(***************************************************************************)
(* C14: a window of one week                                               *)
(***************************************************************************)
\* C14: for every windowDays <= 7 and every list of posts, computeTrend returns
\* exactly one bucket and slope 0
C14_OneWeekOneBucket ==
    (callOut # None /\ callOut.fn = "computeTrend" /\ callIn.windowDays <= 7) =>
        /\ Len(callOut.val.bins) = 1
        /\ callOut.val.slope = Zero

\* a window of 7 days with two posts in it has been binned
C14_Witness ==
    /\ callOut # None /\ callOut.fn = "computeTrend"
    /\ callIn.windowDays = 7
    /\ callOut.val.bins = <<2>>
(***************************************************************************)
(* The similarity metrics and computeTrend together: the divisions         *)
(***************************************************************************)
DivisionInit == SimInit \/ TrendInit

DivisionNext == SimNext \/ TrendNext

SpecDivision == DivisionInit /\ [][DivisionNext]_vars

(***************************************************************************)
(* C15: no division by zero, no index past the end                         *)
(***************************************************************************)
\* the number of matching characters jaroDistance finds
jaroMatchCount(a, b) == Cardinality(jaroMatches(a, b, 1, {}, {}).aM)

\* the transposition scan of jaroDistance(a, b)
jaroScanOf(a, b) ==
    jaroScan(a, b, jaroMatches(a, b, 1, {}, {}), 1, 1, [t |-> 0, maxJ |-> 0])

\* jaroDistance gets as far as its transposition scan
jaroScans(a, b) == a # b /\ Len(a) > 0 /\ Len(b) > 0 /\ jaroMatchCount(a, b) > 0

MissingProblems ==
    {p \in Range(argProblems) : postLookup(argPosts, p.postId) = <<>>}

\* what the implementation of the last call returns for these phrases
ideasOf(problems) ==
    IF clusters.impl = "part_003"
    THEN clusterIdeas(draftsOf(argPosts, problems), argWindowDays, dateNow)
    ELSE clusterIdeasNoGate(draftsOf(argPosts, problems), argWindowDays, dateNow)

\* C16: the phrases whose postId is not among the input posts are ignored: the call
\* returns what it returns without them (posts, phrase lists, counts and scores of
\* every cluster), no cluster holds a post that was not given, and phrases that all
\* reference missing posts produce no cluster
C16_MissingPostsIgnored ==
    clusters.impl # "none" =>
        /\ clusters.ideas = ideasOf(without(argProblems, MissingProblems))
        /\ \A c \in 1..Len(clusters.ideas) :
                \A k \in 1..Len(clusters.ideas[c].posts) :
                    postLookup(argPosts, clusters.ideas[c].posts[k].id) # <<>>
        /\ Range(argProblems) \subseteq MissingProblems => clusters.ideas = <<>>

\* part_003 has returned a cluster for phrases of which one names a missing post and
\* has the signature of the cluster
C16_Witness ==
    /\ clusters.impl = "part_003"
    /\ Len(clusters.ideas) >= 1
    /\ \E p \in MissingProblems : p.canonical = clusters.ideas[1].canonical
(***************************************************************************)
(* countPainWords on its own                                               *)
(***************************************************************************)
MaxPainParts == 2

\* the pieces the texts are made of: configured pain words in both cases, words of
\* the list in extract.ts, and a word of neither list
PainParts ==
    {<<"m","a","n","u","a","l">>, <<"T","e","d","i","o","u","s">>, <<"c","o","p","y"," ","p","a","s","t","e">>, <<"t","a","k","e","s"," ","f","o","r","e","v","e","r">>, <<"e","r","r","o","r","-","p","r","o","n","e">>,
     <<"h","a","r","d">>, <<"P","r","o","b","l","e","m">>, <<"n","o","t","e","s">>}

\* the text of the test "caps pain word bonus count" (extract.test.ts:31)
PainTestText ==
    <<"m","a","n","u","a","l"," ","r","e","p","e","t","i","t","i","v","e"," ","t","e","d","i","o","u","s"," ","b","o","r","i","n","g"," ","e","r","r","o","r","-","p","r","o","n","e"," ","c","o","p","y"," ","p","a","s","t","e"," ","t","a","k","e","s"," ","f","o","r","e","v","e","r">>

PainTexts ==
    {join(parts, <<" ">>, 1) : parts \in SeqsUpTo(PainParts, MaxPainParts)}
        \cup {PainTestText}

PainInit ==
    /\ callIn \in [fn : {"countPainWords"}, text : PainTexts]
    /\ callOut = None
    /\ simA = <<>> /\ simB = <<>> /\ simOut = None
    /\ textIn = <<>> /\ textOut = None
    /\ ClusterIdle
    /\ IoIdle

CountPainWords ==
    /\ callOut = None
    /\ callIn.fn = "countPainWords"
    /\ callOut' = [fn |-> "countPainWords", val |-> countPainWords(callIn.text)]
    /\ UNCHANGED <<callIn, simVars, textVars, clusterVars, ioVars>>

PainNext == CountPainWords

SpecPain == PainInit /\ [][PainNext]_vars

(***************************************************************************)
(* C17: the configured pain words are counted                              *)
(***************************************************************************)
\* the occurrences in lower, as whole words, of the words of a list from the w-th on
RECURSIVE occurrencesFrom(_, _, _)
occurrencesFrom(lower, words, w) ==
    IF w > Len(words) THEN 0
    ELSE Cardinality(wordMatches(lower, words[w])) + occurrencesFrom(lower, words, w + 1)

\* C17: countPainWords counts, in any letter case and once per occurrence, the
\* configured pain words (manual, repetitive, tedious, boring, error-prone, copy
\* paste, takes forever): a text with n occurrences yields at least n, and the text
\* that lists all seven yields at least 4
C17_ConfiguredPainWordsCounted ==
    (callOut # None /\ callOut.fn = "countPainWords") =>
        /\ callOut.val >= occurrencesFrom(toLowerCase(callIn.text), PAIN_WORDS_patterns, 1)
        /\ callIn.text = PainTestText => callOut.val >= 4
(***************************************************************************)
(* src/lib/ideas/synthesize.ts                                             *)
(* Complexity points are in tenths. The tiers and the price bands are      *)
(* strings of the model; their en dashes are written as hyphens.           *)
(***************************************************************************)
COMPLEXITY_POINTS ==
    [base |-> 10, integration |-> 6, pdf |-> 8, email |-> 4, web |-> 9, realtime |-> 7,
     customModel |-> 12, authBilling |-> 8, uiHeavy |-> 6, accuracyCritical |-> 7]

toTier(score) ==
    IF score <= 20 THEN "Weekend build"
    ELSE IF score <= 35 THEN "1-2 weeks"
    ELSE "Complex"

\* a mapping that gives the Complex tier the days of the middle tier
toDaysFlat(tier) == IF tier = "Weekend build" THEN 2 ELSE 7

toDays(tier) ==
    CASE tier = "Weekend build" -> 2
      [] tier = "1-2 weeks" -> 7
      [] OTHER -> 14

\* text.match(/a|b|c/) for alternatives without metacharacters
matchesAny(text, alternatives) == \E alt \in alternatives : Includes(text, alt)

\* if (condition) set.add(item), as the piece this adds to the list
added(condition, item) == IF condition THEN <<item>> ELSE <<>>

\* the title alone, without the keywords
synthLowerTitleOnly(title, keywords) == toLowerCase(title)

\* `${title} ${keywords.join(" ")}`.toLowerCase()
synthLower(title, keywords) == toLowerCase(title \o <<" ">> \o join(keywords, <<" ">>, 1))

\* the ten tests of guessRequirements, in order; every test adds a different string
requirementsOf(lower) ==
    added(Includes(lower, <<"j","i","r","a">>), <<"J","i","r","a"," ","R","E","S","T"," ","A","P","I"," ","(","i","s","s","u","e","s"," ","c","r","e","a","t","e","/","u","p","d","a","t","e",")">>)
    \o added(Includes(lower, <<"g","i","t","h","u","b">>), <<"G","i","t","H","u","b"," ","I","s","s","u","e","s"," ","A","P","I"," ","i","n","t","e","g","r","a","t","i","o","n">>)
    \o added(Includes(lower, <<"s","l","a","c","k">>), <<"S","l","a","c","k"," ","w","e","b","h","o","o","k","/","A","p","p"," ","e","v","e","n","t">>)
    \o added(Includes(lower, <<"d","i","s","c","o","r","d">>), <<"D","i","s","c","o","r","d"," ","b","o","t"," ","w","e","b","h","o","o","k">>)
    \o added(Includes(lower, <<"g","m","a","i","l">>) \/ Includes(lower, <<"e","m","a","i","l">>),
             <<"G","m","a","i","l"," ","A","P","I"," ","o","r"," ","I","M","A","P"," ","i","n","b","o","x"," ","p","o","l","l","i","n","g">>)
    \o added(matchesAny(lower, {<<"s","h","e","e","t">>, <<"s","p","r","e","a","d","s","h","e","e","t">>, <<"a","i","r","t","a","b","l","e">>, <<"c","s","v">>}),
             <<"C","S","V"," ","i","m","p","o","r","t","/","e","x","p","o","r","t"," ","o","r"," ","G","o","o","g","l","e"," ","S","h","e","e","t","s"," ","A","P","I">>)
    \o added(Includes(lower, <<"t","h","u","m","b","n","a","i","l">>) \/ Includes(lower, <<"i","m","a","g","e">>),
             <<"I","m","a","g","e"," ","g","e","n","e","r","a","t","i","o","n"," ","A","P","I"," ","(","R","e","p","l","i","c","a","t","e","/","S","D","X","L",")">>)
    \o added(Includes(lower, <<"i","n","v","o","i","c","e">>) \/ Includes(lower, <<"r","e","c","e","i","p","t">>),
             <<"P","D","F"," ","p","a","r","s","i","n","g"," ","p","i","p","e","l","i","n","e"," ","(","p","d","f","j","s"," ","+"," ","e","x","t","r","a","c","t","i","o","n"," ","r","u","l","e","s",")">>)
    \o added(Includes(lower, <<"n","o","t","i","o","n">>), <<"N","o","t","i","o","n"," ","A","P","I"," ","i","n","t","e","g","r","a","t","i","o","n">>)
    \o added(Includes(lower, <<"z","a","p","i","e","r">>), <<"Z","a","p","i","e","r"," ","w","e","b","h","o","o","k","s"," ","/"," ","a","u","t","h"," ","t","o","k","e","n"," ","m","a","n","a","g","e","m","e","n","t">>)

guessRequirements(title, keywords) == requirementsOf(synthLower(title, keywords))

\* check(token) of complexityScore
check(allText, titleLower, token) == Includes(allText, token) \/ Includes(titleLower, token)

\* score += points when the test holds
points(condition, amount) == IF condition THEN amount ELSE 0

\* the sum in tenths; the double sum is on the same side of 2 and of 3.5 except for
\* 3.5000000000000004, reached by two combinations without the web points
complexityOf(count, allText, titleLower) ==
    COMPLEXITY_POINTS.base
    + count * COMPLEXITY_POINTS.integration
    + points(check(allText, titleLower, <<"p","d","f">>), COMPLEXITY_POINTS.pdf)
    + points(check(allText, titleLower, <<"e","m","a","i","l">>), COMPLEXITY_POINTS.email)
    + points(check(allText, titleLower, <<"w","e","b","h","o","o","k">>) \/ check(allText, titleLower, <<"w","e","b">>),
             COMPLEXITY_POINTS.web)
    + points(check(allText, titleLower, <<"r","e","a","l","t","i","m","e">>) \/ check(allText, titleLower, <<"l","i","v","e">>),
             COMPLEXITY_POINTS.realtime)
    + points(check(allText, titleLower, <<"m","o","d","e","l">>) \/ check(allText, titleLower, <<"m","l">>),
             COMPLEXITY_POINTS.customModel)
    + points(check(allText, titleLower, <<"b","i","l","l","i","n","g">>) \/ check(allText, titleLower, <<"o","a","u","t","h">>),
             COMPLEXITY_POINTS.authBilling)
    + points(check(allText, titleLower, <<"d","e","s","i","g","n","e","r">>) \/ check(allText, titleLower, <<"t","h","u","m","b","n","a","i","l">>)
                \/ check(allText, titleLower, <<"e","d","i","t","o","r">>),
             COMPLEXITY_POINTS.uiHeavy)
    + points(check(allText, titleLower, <<"i","n","v","o","i","c","e">>) \/ check(allText, titleLower, <<"l","e","d","g","e","r">>)
                \/ check(allText, titleLower, <<"f","i","n","a","n","c","e">>) \/ check(allText, titleLower, <<"m","e","d","i","c","a","l">>),
             COMPLEXITY_POINTS.accuracyCritical)

complexityScore(requirements, cluster) ==
    complexityOf(Len(requirements), toLowerCase(join(requirements, <<" ">>, 1)),
                 toLowerCase(cluster.title))

worthBucket(wtpMentions, upvotesSum) ==
    IF wtpMentions >= 8 \/ upvotesSum > 1500 THEN "$99+/mo"
    ELSE IF wtpMentions >= 5 \/ upvotesSum > 600 THEN "$19-$99/mo"
    ELSE IF wtpMentions >= 2 \/ upvotesSum > 250 THEN "$10-$49/mo"
    ELSE "$5-$19/mo"

monetizationFromWorth(worth) ==
    CASE worth = "$99+/mo" -> "Tiered subscription per workspace (from $129/mo)"
      [] worth = "$19-$99/mo" -> "Subscription per workspace (from $29/mo)"
      [] worth = "$10-$49/mo" -> "Subscription per user (from $14/mo)"
      [] OTHER -> "Starter plan $5/mo or credit bundle"

audienceOf(text) ==
    IF matchesAny(text, {<<"y","o","u","t","u","b","e">>, <<"t","h","u","m","b","n","a","i","l">>, <<"c","r","e","a","t","o","r">>})
    THEN "YouTube creators & small video teams"
    ELSE IF matchesAny(text, {<<"i","n","v","o","i","c","e">>, <<"a","c","c","o","u","n","t">>, <<"b","o","o","k","k","e","e","p">>, <<"r","e","c","e","i","p","t">>})
    THEN "SMB operators & accountants"
    ELSE IF matchesAny(text, {<<"j","i","r","a">>, <<"g","i","t","h","u","b">>, <<"b","a","c","k","l","o","g">>, <<"s","p","r","i","n","t">>})
    THEN "Product & engineering leads"
    ELSE IF matchesAny(text, {<<"t","e","a","c","h","e","r">>, <<"c","l","a","s","s","r","o","o","m">>, <<"s","t","u","d","e","n","t">>})
    THEN "Educators & course teams"
    ELSE IF matchesAny(text, {<<"f","r","e","e","l","a","n","c","e">>, <<"c","l","i","e","n","t">>})
    THEN "Freelancers & consultants"
    ELSE "Builders & operators dealing with repetitive workflows"

chooseAudience(title, keywords) == audienceOf(synthLower(title, keywords))

featuresOf(lower) ==
    <<"Batch automation with guardrails", "Preview & manual override",
      "Activity log with undo">>
    \o added(Includes(lower, <<"t","h","u","m","b","n","a","i","l">>) \/ Includes(lower, <<"i","m","a","g","e">>),
             "Template-based image generation")
    \o added(Includes(lower, <<"i","n","v","o","i","c","e">>), "Line-item extraction & categorisation")
    \o added(Includes(lower, <<"j","i","r","a">>) \/ Includes(lower, <<"g","i","t","h","u","b">>),
             "One-click issue creation with labels")
    \o added(Includes(lower, <<"s","h","e","e","t">>) \/ Includes(lower, <<"c","s","v">>),
             "Spreadsheet import/export sync")
    \o added(Includes(lower, <<"e","m","a","i","l">>), "Inbox watcher for trigger keywords")

buildKeyFeatures(title, keywords) == featuresOf(synthLower(title, keywords))
\* Array.from(new Set([...cluster.topKeywords, ...HIGHLIGHT_KEYWORDS])).slice(0, 15)
\* the cluster's own top keywords, without the highlight keywords
keywordsOfTopOnly(cluster) == cluster.topKeywords

keywordsOf(cluster) ==
    SubSeq(uniqueTokens(cluster.topKeywords \o HIGHLIGHT_KEYWORDS, 1, <<>>), 1,
           Min2(15, Len(uniqueTokens(cluster.topKeywords \o HIGHLIGHT_KEYWORDS, 1, <<>>))))

\* cluster.posts.map((post) => `${post.title} ${post.matchedSnippet}`)
postTexts(posts) == [i \in 1..Len(posts) |-> posts[i].title \o <<" ">> \o posts[i].matchedSnippet]

combinedTextOf(cluster) ==
    cluster.title \o <<" ">> \o cluster.sampleSnippet \o <<" ">>
        \o join(cluster.phrases, <<" ">>, 1) \o <<" ">>
        \o join(postTexts(cluster.posts), <<" ">>, 1)

\* the alternatives of /(willing to pay|i'?d pay|pay for|pricing|budget)/gi, in order
WtpAlternatives ==
    << <<"w","i","l","l","i","n","g"," ","t","o"," ","p","a","y">>, <<"i","'","d"," ","p","a","y">>, <<"i","d"," ","p","a","y">>, <<"p","a","y"," ","f","o","r">>, <<"p","r","i","c","i","n","g">>, <<"b","u","d","g","e","t">> >>

startsAt(text, i, word) ==
    /\ i + Len(word) - 1 <= Len(text)
    /\ SubSeq(text, i, i + Len(word) - 1) = word

\* the length of the match that starts at i, or 0
matchLengthAt(lower, i) ==
    IF \E k \in 1..Len(WtpAlternatives) : startsAt(lower, i, WtpAlternatives[k])
    THEN Len(WtpAlternatives[CHOOSE k \in 1..Len(WtpAlternatives) :
                /\ startsAt(lower, i, WtpAlternatives[k])
                /\ \A h \in 1..(k - 1) : ~startsAt(lower, i, WtpAlternatives[h])])
    ELSE 0

\* the matches of the global regex: the scan goes on after the end of each match
RECURSIVE wtpFrom(_, _, _)
wtpFrom(lower, i, hits) ==
    IF i > Len(lower) THEN hits
    ELSE IF matchLengthAt(lower, i) > 0
         THEN wtpFrom(lower, i + matchLengthAt(lower, i), hits + 1)
         ELSE wtpFrom(lower, i + 1, hits)

wtpMentionsOf(combinedText) == wtpFrom(toLowerCase(combinedText), 1, 0)

\* the count of pain words without the floor of 1
painIntensityRaw(combinedText) == countPainWords(combinedText)

\* Math.max(1, countPainWords(combinedText))
painIntensityOf(combinedText) == Max2(1, countPainWords(combinedText))

GenericRequirements ==
    << <<"C","S","V"," ","i","m","p","o","r","t","/","e","x","p","o","r","t">>, <<"B","a","s","i","c"," ","a","u","t","h","/","t","o","k","e","n"," ","s","t","o","r","e">>, <<"S","c","h","e","d","u","l","e","d"," ","&"," ","o","n","-","d","e","m","a","n","d"," ","r","u","n","s">> >>

\* the returned record; the template strings are given by the values put into them
synthRecord(cluster, keywords, requirements, wtpMentions, painIntensity) ==
    [problemTitle |-> cluster.title,
     summary |-> [title |-> toLowerCase(cluster.title), postsCount |-> cluster.postsCount,
                  subsCount |-> cluster.subsCount, upvotesSum |-> cluster.upvotesSum],
     targetUsers |-> chooseAudience(cluster.title, keywords),
     jobToBeDone |-> [title |-> toLowerCase(cluster.title)],
     solution |-> [title |-> toLowerCase(cluster.title)],
     keyFeatures |-> buildKeyFeatures(cluster.title, keywords),
     requirements |-> IF Len(requirements) # 0 THEN requirements ELSE GenericRequirements,
     complexityTier |-> toTier(complexityScore(requirements, cluster)),
     predictedEffortDays |-> toDays(toTier(complexityScore(requirements, cluster))),
     valueProp |-> [low |-> painIntensity,
                    high |-> Max2(painIntensity + 2, painIntensity * 2)],
     worthEstimate |-> worthBucket(wtpMentions, cluster.upvotesSum),
     monetization |-> monetizationFromWorth(worthBucket(wtpMentions, cluster.upvotesSum)),
     risks |-> <<"Respect upstream platform Terms of Service",
                 "Handle rate limits and retries for third-party APIs",
                 "Ensure outputs are auditable and reversible">>,
     wtpMentions |-> wtpMentions,
     evidenceKeywords |-> SubSeq(keywords, 1, Min2(8, Len(keywords)))]

synthesizeWith(cluster, keywords, combinedText) ==
    synthRecord(cluster, keywords, guessRequirements(cluster.title, keywords),
                wtpMentionsOf(combinedText), painIntensityOf(combinedText))

synthesizeIdea(cluster) ==
    synthesizeWith(cluster, keywordsOf(cluster), combinedTextOf(cluster))

(***************************************************************************)
(* synthesizeIdea on its own                                               *)
(***************************************************************************)
SynthTitles ==
    {<<"A","u","t","o","m","a","t","e"," ","i","n","v","o","i","c","e"," ","c","a","t","e","g","o","r","i","z","a","t","i","o","n"," ","f","r","o","m"," ","e","m","a","i","l"," ","P","D","F","s"," ","i","n","t","o"," ","Q","u","i","c","k","B","o","o","k","s">>,
     <<"S","i","m","p","l","e"," ","a","u","t","o","m","a","t","i","o","n"," ","t","a","s","k">>,
     <<"f","i","x"," ","b","u","g">>,
     <<"S","y","n","c"," ","J","i","r","a"," ","b","a","c","k","l","o","g">>,
     <<"T","h","u","m","b","n","a","i","l"," ","e","d","i","t","o","r"," ","f","o","r"," ","c","r","e","a","t","o","r","s">>,
     <<"S","o","r","t"," ","r","e","c","e","i","p","t","s">>}

\* the top keywords of a cluster: at most 5
SynthKeywords ==
    {<<>>, <<<<"i","n","v","o","i","c","e">>, <<"p","d","f">>>>, <<<<"a","u","t","o","m","a","t","i","o","n">>>>, <<<<"c","s","v">>, <<"e","m","a","i","l">>>>,
     <<<<"i","n","v","o","i","c","e">>, <<"e","m","a","i","l">>, <<"p","d","f">>, <<"q","u","i","c","k","b","o","o","k","s">>, <<"a","u","t","o","m","a","t","e">>>>}

SynthUpvotes == {5, 251, 601, 1501}

\* sample snippets with 0, 0, 2, 5 and 8 mentions of willingness to pay
SynthSnippets ==
    {<<"n","e","e","d"," ","a","u","t","o","m","a","t","i","o","n">>,
     <<"h","a","r","d"," ","p","r","o","b","l","e","m",","," ","a","n","n","o","y","i","n","g">>,
     <<"I","'","d"," ","p","a","y"," ","f","o","r"," ","i","t">>,
     <<"W","i","l","l","i","n","g"," ","t","o"," ","p","a","y"," ","f","o","r"," ","i","t",";"," ","p","r","i","c","i","n","g","?"," ","b","u","d","g","e","t","?"," ","i","d"," ","p","a","y","."," ","p","a","y"," ","f","o","r">>,
     <<"b","u","d","g","e","t"," ","b","u","d","g","e","t"," ","b","u","d","g","e","t"," ","b","u","d","g","e","t"," ","p","r","i","c","i","n","g"," ","p","r","i","c","i","n","g"," ","p","r","i","c","i","n","g"," ","p","r","i","c","i","n","g">>}

SynthPosts ==
    << [title |-> <<"S","i","m","p","l","e"," ","t","a","s","k">>, matchedSnippet |-> <<"n","e","e","d"," ","a","u","t","o","m","a","t","i","o","n">>] >>

SynthClusters ==
    [title : SynthTitles, sampleSnippet : SynthSnippets, phrases : {<<<<"m","a","n","u","a","l"," ","w","o","r","k">>>>},
     posts : {SynthPosts}, postsCount : {1}, subsCount : {1},
     upvotesSum : SynthUpvotes, topKeywords : SynthKeywords]

\* complexity scores in tenths, on both sides of 2 and of 3.5
TierScores == {10, 16, 20, 21, 22, 31, 35, 36, 41, 57}

SynthInit ==
    /\ callIn \in [fn : {"synthesizeIdea"}, cluster : SynthClusters]
                    \cup [fn : {"toTier"}, score : TierScores]
    /\ callOut = None
    /\ simA = <<>> /\ simB = <<>> /\ simOut = None
    /\ textIn = <<>> /\ textOut = None
    /\ ClusterIdle
    /\ IoIdle

SynthesizeIdea ==
    /\ callOut = None
    /\ callIn.fn = "synthesizeIdea"
    /\ callOut' = [fn |-> "synthesizeIdea", val |-> synthesizeIdea(callIn.cluster)]
    /\ UNCHANGED <<callIn, simVars, textVars, clusterVars, ioVars>>

\* toTier and toDays on a score of their own
ToTier ==
    /\ callOut = None
    /\ callIn.fn = "toTier"
    /\ callOut' = [fn |-> "toTier", tier |-> toTier(callIn.score),
                   days |-> toDays(toTier(callIn.score))]
    /\ UNCHANGED <<callIn, simVars, textVars, clusterVars, ioVars>>

SynthNext == SynthesizeIdea \/ ToTier

SpecSynth == SynthInit /\ [][SynthNext]_vars
(***************************************************************************)
(* C18: invoice and PDF clusters get a PDF requirement                     *)
(***************************************************************************)
\* the title or one of the top keywords of the cluster includes the word
mentions(cluster, word) ==
    \/ Includes(toLowerCase(cluster.title), word)
    \/ \E k \in 1..Len(cluster.topKeywords) :
            Includes(toLowerCase(cluster.topKeywords[k]), word)

\* one of the requirement strings contains "pdf" in any letter case
mentionsPdf(requirements) ==
    \E r \in 1..Len(requirements) : Includes(toLowerCase(requirements[r]), <<"p","d","f">>)

\* C18: for every cluster whose title or keywords include "invoice" and "pdf", the
\* requirements returned by synthesizeIdea hold a string that mentions PDF
C18_InvoicePdfRequirement ==
    (callOut # None /\ callOut.fn = "synthesizeIdea"
        /\ mentions(callIn.cluster, <<"i","n","v","o","i","c","e">>) /\ mentions(callIn.cluster, <<"p","d","f">>))
            => mentionsPdf(callOut.val.requirements)

\* a cluster with "invoice" and "pdf" among its keywords only has been synthesized
C18_Witness ==
    /\ callOut # None /\ callOut.fn = "synthesizeIdea"
    /\ callIn.cluster.title = <<"f","i","x"," ","b","u","g">>
    /\ callIn.cluster.topKeywords = <<<<"i","n","v","o","i","c","e">>, <<"p","d","f">>>>
    /\ mentionsPdf(callOut.val.requirements)

(***************************************************************************)
(* C19: tiers and effort days                                              *)
(***************************************************************************)
\* the tier and the days that belong to a complexity score (in tenths)
tierOfScore(score, tier, days) ==
    /\ tier = "Weekend build" <=> score <= 20
    /\ tier = "1-2 weeks" <=> (score > 20 /\ score <= 35)
    /\ tier = "Complex" <=> score > 35
    /\ <<tier, days>> \in {<<"Weekend build", 2>>, <<"1-2 weeks", 7>>, <<"Complex", 14>>}

\* the complexity score synthesizeIdea computes for the cluster
complexityOfCluster(cluster) ==
    complexityScore(guessRequirements(cluster.title, keywordsOf(cluster)), cluster)

\* C19: complexityTier is "Weekend build" exactly when the complexity score is <= 2,
\* "1-2 weeks" exactly when it is > 2 and <= 3.5, "Complex" otherwise, with
\* predictedEffortDays 2, 7 and 14; no other pair of tier and days is returned
C19_TierAndDays ==
    /\ (callOut # None /\ callOut.fn = "synthesizeIdea") =>
            tierOfScore(complexityOfCluster(callIn.cluster),
                        callOut.val.complexityTier, callOut.val.predictedEffortDays)
    /\ (callOut # None /\ callOut.fn = "toTier") =>
            tierOfScore(callIn.score, callOut.tier, callOut.days)

\* a cluster of complexity above 3.5 has been synthesized as Complex, 14 days
C19_Witness ==
    /\ callOut # None /\ callOut.fn = "synthesizeIdea"
    /\ complexityOfCluster(callIn.cluster) > 35
    /\ callOut.val.complexityTier = "Complex"
    /\ callOut.val.predictedEffortDays = 14

(***************************************************************************)
(* C20: a complete record for every cluster                                *)
(***************************************************************************)
RecordFields ==
    {"problemTitle", "summary", "targetUsers", "jobToBeDone", "solution", "keyFeatures",
     "requirements", "complexityTier", "predictedEffortDays", "valueProp", "worthEstimate",
     "monetization", "risks", "wtpMentions", "evidenceKeywords"}

PriceBands == {"$99+/mo", "$19-$99/mo", "$10-$49/mo", "$5-$19/mo"}

PersonaPatterns ==
    {<<"y","o","u","t","u","b","e">>, <<"t","h","u","m","b","n","a","i","l">>, <<"c","r","e","a","t","o","r">>, <<"i","n","v","o","i","c","e">>, <<"a","c","c","o","u","n","t">>, <<"b","o","o","k","k","e","e","p">>, <<"r","e","c","e","i","p","t">>,
     <<"j","i","r","a">>, <<"g","i","t","h","u","b">>, <<"b","a","c","k","l","o","g">>, <<"s","p","r","i","n","t">>, <<"t","e","a","c","h","e","r">>, <<"c","l","a","s","s","r","o","o","m">>, <<"s","t","u","d","e","n","t">>,
     <<"f","r","e","e","l","a","n","c","e">>, <<"c","l","i","e","n","t">>}

MaxStoreClusters == 2

StoreWindows == {7, 30}

windowId(windowDays) == IF windowDays = 7 THEN "idea_h7" ELSE "idea_h30"

StoreIds(windowDays) == {"semantic_cluster_0", windowId(windowDays)}

StoreClusters(windowDays) ==
    [id : StoreIds(windowDays), title : {"a", "b"}, posts : {<<"1">>, <<"2">>}]

distinctIds(list) ==
    \A i, j \in 1..Len(list) : list[i].id = list[j].id => i = j

StoreClusterLists(windowDays) ==
    {list \in UNION {[1..n -> StoreClusters(windowDays)] : n \in 0..MaxStoreClusters} :
        distinctIds(list)}

\* storage.ts 131-135: the ideas of the window and their idea_posts rows go
deleteWindow(db, windowDays) ==
    LET existing == {r.id : r \in {x \in db.ideas : x.window_days = windowDays}}
    IN  [ideas |-> {r \in db.ideas : r.id \notin existing},
         ideaPosts |-> {p \in db.ideaPosts : p.idea_id \notin existing}]

\* storage.ts 138-157: INSERT ... ON CONFLICT(id) DO UPDATE, then INSERT OR
\* IGNORE of the cluster's posts
insertIdea(db, windowDays, cluster) ==
    [ideas |-> {r \in db.ideas : r.id # cluster.id} \cup
               {[id |-> cluster.id, window_days |-> windowDays, title |-> cluster.title]},
     ideaPosts |-> db.ideaPosts \cup
               {[idea_id |-> cluster.id, post_id |-> cluster.posts[i]] :
                    i \in 1..Len(cluster.posts)}]

RECURSIVE insertFrom(_, _, _, _)
insertFrom(db, windowDays, ideas, i) ==
    IF i > Len(ideas) THEN db
    ELSE insertFrom(insertIdea(db, windowDays, ideas[i]), windowDays, ideas, i + 1)

storeIdeas(db, windowDays, ideas) ==
    insertFrom(deleteWindow(db, windowDays), windowDays, ideas, 1)

StoreInit ==
    /\ simA = <<>> /\ simB = <<>> /\ simOut = None
    /\ textIn = <<>> /\ textOut = None
    /\ ClusterIdle
    /\ CallIdle
    /\ IoIdle

StoreIdeas ==
    \E windowDays \in StoreWindows :
        \E list \in StoreClusterLists(windowDays) :
            LET db == storeIdeas([ideas |-> dbIdeas, ideaPosts |-> dbIdeaPosts],
                                 windowDays, list)
            IN  /\ dbIdeas' = db.ideas
                /\ dbIdeaPosts' = db.ideaPosts
                /\ dbCall' = [windowDays |-> windowDays, clusters |-> list]
                /\ UNCHANGED <<simVars, textVars, clusterVars, callVars, fetchVars>>

StoreNext == StoreIdeas

SpecStore == StoreInit /\ [][StoreNext]_vars

(***************************************************************************)
(* C21: storeIdeas replaces the ideas of one window and leaves the others  *)
(***************************************************************************)
postIdsOf(ideaPosts, id) == {p.post_id : p \in {x \in ideaPosts : x.idea_id = id}}

otherWindows(ideas, windowDays) == {r \in ideas : r.window_days # windowDays}

\* C21: after storeIdeas(windowDays, clusters) the ideas stored with that
\* window are exactly the given clusters, the idea_posts rows of each of them
\* are exactly the cluster's post ids, and the ideas of every other window
\* and their idea_posts rows are as they were before the call.
C21_ReplacePerWindow ==
    [][dbCall' # None =>
        LET windowDays == dbCall'.windowDays
            given == dbCall'.clusters
        IN  /\ {r \in dbIdeas' : r.window_days = windowDays} =
                   {[id |-> given[i].id, window_days |-> windowDays,
                     title |-> given[i].title] : i \in 1..Len(given)}
            /\ \A i \in 1..Len(given) :
                   postIdsOf(dbIdeaPosts', given[i].id) =
                       {given[i].posts[k] : k \in 1..Len(given[i].posts)}
            /\ otherWindows(dbIdeas', windowDays) = otherWindows(dbIdeas, windowDays)
            /\ \A r \in otherWindows(dbIdeas, windowDays) :
                   postIdsOf(dbIdeaPosts', r.id) = postIdsOf(dbIdeaPosts, r.id)]_vars
(***************************************************************************)
(* part_003: buildDrafts and mergeSimilarDrafts on phrases that are near   *)
(* one another                                                             *)
(***************************************************************************)
MaxMergeProblems == 6

MergeProblem(postId, phrase, cueId) ==
    [postId |-> postId, phrase |-> phrase, canonical |-> canonicalizePhrase(phrase),
     snippet |-> phrase, cueId |-> cueId]

\* similarity: "fix syncing"/"fix sync" 0.94, "fix sync"/"fix csv" 0.88,
\* "fix syncing"/"fix csv" 0.84
MergePool ==
    { MergeProblem("1", <<"f","i","x"," ","s","y","n","c","i","n","g">>, "llm_detected"), MergeProblem("2", <<"F","i","x"," ","s","y","n","c","i","n","g">>, "llm_detected"),
      MergeProblem("1", <<"f","i","x"," ","c","s","v">>, "how_do_i"), MergeProblem("2", <<"f","i","x"," ","c","s","v">>, "llm_detected"),
      MergeProblem("1", <<"f","i","x"," ","s","y","n","c">>, "llm_detected"), MergeProblem("2", <<"f","i","x"," ","s","y","n","c">>, "llm_detected") }

\* extractFromCue cuts the phrase at 80 characters (extract.ts:118) and takes
\* the signature from the whole clause (extract.ts:141), so two clauses alike
\* in their first 80 characters give one phrase string under two signatures;
\* "_tail" stands for the words of the longer clause behind the cut
CutProblem(problem) == [problem EXCEPT !.canonical = @ \o <<"_","t","a","i","l">>]

MaxDraftEntries == 2

DraftsOfPool(pool) ==
    UNION {Range(buildDrafts(InputPosts, list)) : list \in DistinctSeqs(pool, MaxDraftEntries)}

MergeDraftsCalls ==
    [fn : {"mergeDrafts"},
     target : DraftsOfPool(MergePool),
     source : DraftsOfPool({CutProblem(problem) : problem \in MergePool})]

\* a run of clusterIdeas over phrases of the pool, or one call of mergeDrafts
MergeInit ==
    /\ \/ /\ argPosts = InputPosts
          /\ argProblems \in DistinctSeqs(MergePool, MaxMergeProblems)
          /\ argWindowDays \in WindowChoices
          /\ dateNow = 0
          /\ mergedDrafts = <<>>
          /\ clusters = NotRun
          /\ CallIdle
       \/ /\ ClusterIdle
          /\ callIn \in MergeDraftsCalls
          /\ callOut = None
    /\ simA = <<>> /\ simB = <<>> /\ simOut = None
    /\ textIn = <<>> /\ textOut = None
    /\ IoIdle

\* mergeDrafts(target, source); val is the target afterwards
MergeDrafts ==
    /\ callOut = None
    /\ callIn.fn = "mergeDrafts"
    /\ callOut' = [fn |-> "mergeDrafts", val |-> mergeDrafts(callIn.target, callIn.source)]
    /\ UNCHANGED <<callIn, simVars, textVars, clusterVars, ioVars>>

MergeNext == ClusterIdeas \/ ClusterIdeasNoGate \/ MergeDrafts

SpecMerge == MergeInit /\ [][MergeNext]_vars
(***************************************************************************)
(* C22: the order of mergeSimilarDrafts and the draft that absorbs         *)
(***************************************************************************)
\* the place of drafts[i] when the drafts are put in descending order of
\* entry count, equal counts in first-seen order
placeByCount(drafts, i) ==
    1 + Cardinality({j \in 1..Len(drafts) :
            \/ Len(drafts[j].entries) > Len(drafts[i].entries)
            \/ Len(drafts[j].entries) = Len(drafts[i].entries) /\ j < i})

\* the accepted drafts whose representative is similar to the draft's own
similarAccepted(accepted, draft) ==
    {k \in 1..Len(accepted) :
        RLeq(Rat(SIMILARITY_THRESHOLD, 100),
             similarity(toLowerCase(representativePhrase(draft)),
                        toLowerCase(representativePhrase(accepted[k]))))}

\* one draft processed: accepted is the list before, after the list behind it
processedAsClaimed(accepted, draft, after) ==
    LET similar == similarAccepted(accepted, draft)
    IN  IF similar = {} THEN after = Append(accepted, draft)
        ELSE LET first == CHOOSE k \in similar : \A other \in similar : k <= other
             IN  /\ Len(after) = Len(accepted)
                 /\ \A k \in 1..Len(accepted) : k # first => after[k] = accepted[k]
                 /\ after[first].canonical = accepted[first].canonical
                 /\ after[first].entries = accepted[first].entries \o draft.entries

draftOfCanonical(drafts, canonical) ==
    drafts[CHOOSE i \in 1..Len(drafts) : drafts[i].canonical = canonical]

\* C22: drafts are processed in descending order of entry count, equal counts
\* in first-seen order; each is merged into the first accepted draft, in
\* acceptance order, whose representative has similarity >= 0.85 with its own
\* (both lower-cased) and is accepted itself when there is none; so a draft is
\* absorbed only by a draft that had at least as many entries after grouping.
C22_MergeIntoFirstSimilar ==
    clusters # NotRun /\ Len(argProblems) > 0 =>
        LET drafts == buildDrafts(argPosts, argProblems)
            sorted == sortBy(drafts, "moreEntries")
        IN  /\ Len(sorted) = Len(drafts)
            /\ \A i \in 1..Len(drafts) : sorted[placeByCount(drafts, i)] = drafts[i]
            /\ \A i \in 1..Len(sorted) :
                   processedAsClaimed(mergeFrom(SubSeq(sorted, 1, i - 1), 1, <<>>),
                                      sorted[i],
                                      mergeFrom(SubSeq(sorted, 1, i), 1, <<>>))
            /\ mergedDrafts = mergeFrom(sorted, 1, <<>>)
            /\ \A m \in 1..Len(mergedDrafts) :
                   \A e \in 1..Len(mergedDrafts[m].entries) :
                       Len(draftOfCanonical(drafts, mergedDrafts[m].entries[e].phrase.canonical).entries)
                           <= Len(draftOfCanonical(drafts, mergedDrafts[m].canonical).entries)

\* three drafts of two entries each; the third is similar to both accepted
\* drafts and goes into the first
C22_Witness ==
    /\ clusters # NotRun
    /\ Len(buildDrafts(argPosts, argProblems)) = 3
    /\ Len(mergedDrafts) = 2
    /\ Len(mergedDrafts[1].entries) = 4
    /\ Cardinality(similarAccepted(
            SubSeq(sortBy(buildDrafts(argPosts, argProblems), "moreEntries"), 1, 2),
            sortBy(buildDrafts(argPosts, argProblems), "moreEntries")[3])) = 2
(***************************************************************************)
(* C23: the representative phrase and the counts after a merge             *)
(***************************************************************************)
countOfPhrase(phraseCounts, phrase) ==
    LET at == {i \in 1..Len(phraseCounts) : phraseCounts[i].phrase = phrase}
    IN  IF at = {} THEN 0 ELSE phraseCounts[CHOOSE i \in at : TRUE].count

phrasesOf(phraseCounts) == {phraseCounts[i].phrase : i \in 1..Len(phraseCounts)}

\* the phrase at the first place that holds the highest count
firstOfHighest(phraseCounts) ==
    LET highest == {i \in 1..Len(phraseCounts) :
                       \A j \in 1..Len(phraseCounts) :
                           phraseCounts[j].count <= phraseCounts[i].count}
    IN  phraseCounts[CHOOSE i \in highest : \A j \in highest : i <= j].phrase

representativeAsClaimed(draft) ==
    representativePhrase(draft) = firstOfHighest(draft.phraseCounts)

mergedCountsAsClaimed(target, source, result) ==
    /\ phrasesOf(result.phraseCounts) =
           phrasesOf(target.phraseCounts) \cup phrasesOf(source.phraseCounts)
    /\ Cardinality(phrasesOf(result.phraseCounts)) = Len(result.phraseCounts)
    /\ \A phrase \in phrasesOf(result.phraseCounts) :
           countOfPhrase(result.phraseCounts, phrase) =
               countOfPhrase(target.phraseCounts, phrase)
                   + countOfPhrase(source.phraseCounts, phrase)
    /\ \A i \in 1..Len(target.phraseCounts) :
           result.phraseCounts[i].phrase = target.phraseCounts[i].phrase

\* C23: representativePhrase returns the phrase with the highest count and,
\* among phrases tied for it, the one inserted first; after a merge the counts
\* of a phrase present in both drafts are added and the phrase keeps its place
\* in the target.
C23_RepresentativeAndMergedCounts ==
    /\ callOut.fn = "mergeDrafts" =>
           /\ representativeAsClaimed(callIn.target)
           /\ representativeAsClaimed(callOut.val)
           /\ mergedCountsAsClaimed(callIn.target, callIn.source, callOut.val)
    /\ \A i \in 1..Len(mergedDrafts) : representativeAsClaimed(mergedDrafts[i])

\* both drafts hold the two phrases, in opposite orders: the counts are
\* added, the order is the target's and the tie goes to the target's first
C23_Witness ==
    /\ callOut.fn = "mergeDrafts"
    /\ Len(callIn.target.phraseCounts) = 2
    /\ phrasesOf(callIn.source.phraseCounts) = phrasesOf(callIn.target.phraseCounts)
    /\ callIn.source.phraseCounts[1].phrase = callIn.target.phraseCounts[2].phrase
    /\ callOut.val.phraseCounts[1].count = 2
    /\ callOut.val.phraseCounts[2].count = 2
    /\ representativePhrase(callOut.val) = callIn.target.phraseCounts[1].phrase
(***************************************************************************)
(* C24: the entry that represents a post of a cluster                      *)
(***************************************************************************)
\* own are the post's entries in the draft; some entry of them is the chosen one
chosenAsClaimed(draft, own, clusterPost, now) ==
    \E e \in 1..Len(own) :
        /\ clusterPost.problemPhrase = own[e].phrase.phrase
        /\ clusterPost.matchedSnippet = own[e].phrase.snippet
        /\ (\E f \in 1..Len(own) : IsPrimary(own[f])) => IsPrimary(own[e])
        /\ \A f \in 1..Len(own) :
               IsPrimary(own[f]) = IsPrimary(own[e]) =>
                   Len(own[f].phrase.phrase) <= Len(own[e].phrase.phrase)
        /\ clusterPostScore(draft, clusterPost, now) =
               computePostScore(own[e].post, IsPrimary(own[e]),
                                clusterPost.problemPhrase, now).postScore

nearDuplicates(a, b) ==
    RLeq(Rat(SIMILARITY_THRESHOLD, 100),
         similarity(toLowerCase(representativePhrase(a)),
                    toLowerCase(representativePhrase(b))))

\* C28: after mergeSimilarDrafts no two accepted drafts have representative
\* phrases whose similarity, on the lower-cased phrases, is >= 0.85.
C28_NoNearDuplicates ==
    clusters # NotRun =>
        \A i, j \in 1..Len(mergedDrafts) :
            i # j => ~nearDuplicates(mergedDrafts[i], mergedDrafts[j])
(***************************************************************************)
(* C29: grouping and merging keep every entry once                         *)
(***************************************************************************)
\* the places <<draft, entry>> of a list of drafts
entryPlaces(drafts) ==
    {<<m, e>> \in (1..Len(drafts)) \X (1..MaxProblems) : e <= Len(drafts[m].entries)}

\* every phrase of a present post is the phrase of one entry, with its post,
\* and there is no other entry
everyEntryOnce(posts, problems, drafts) ==
    LET present == {i \in 1..Len(problems) : postLookup(posts, problems[i].postId) # <<>>}
    IN  /\ \A i \in present :
               Cardinality({pl \in entryPlaces(drafts) :
                   /\ drafts[pl[1]].entries[pl[2]].phrase = problems[i]
                   /\ drafts[pl[1]].entries[pl[2]].post.id = problems[i].postId}) = 1
        /\ Cardinality(entryPlaces(drafts)) = Cardinality(present)

countsSumToEntries(drafts) ==
    \A m \in 1..Len(drafts) :
        SumSeq([k \in 1..Len(drafts[m].phraseCounts) |-> drafts[m].phraseCounts[k].count], 1)
            = Len(drafts[m].entries)

distinctCanonicals(drafts) ==
    \A m, n \in 1..Len(drafts) : drafts[m].canonical = drafts[n].canonical => m = n

\* C29: every input phrase whose post is present becomes exactly one entry,
\* after mergeSimilarDrafts each entry belongs to exactly one accepted draft,
\* the counts of every draft sum to the number of its entries, and the
\* accepted drafts have pairwise distinct canonical signatures.
C29_EntriesKept ==
    clusters # NotRun /\ Len(argProblems) > 0 =>
        /\ everyEntryOnce(argPosts, argProblems, buildDrafts(argPosts, argProblems))
        /\ everyEntryOnce(argPosts, argProblems, mergedDrafts)
        /\ countsSumToEntries(buildDrafts(argPosts, argProblems))
        /\ countsSumToEntries(mergedDrafts)
        /\ distinctCanonicals(mergedDrafts)

\* four phrases, one of a post that is not there, grouped into two drafts
\* that are merged into one
C29_Witness ==
    /\ clusters # NotRun
    /\ Len(argProblems) = 4
    /\ \E i \in 1..Len(argProblems) : postLookup(argPosts, argProblems[i].postId) = <<>>
    /\ Len(buildDrafts(argPosts, argProblems)) = 2
    /\ Len(mergedDrafts) = 1
    /\ Len(mergedDrafts[1].entries) = 3
(***************************************************************************)
(* stem.ts: stemWord applied to bounded words                              *)
(***************************************************************************)
MaxStemLen == 4

StemAlphabet == {"d", "e", "g", "i", "n", "r", "s"}

StemExamples ==
    { <<"D","i","e","s">>, <<"T","I","E","S">>, <<"r","i","n","g","s">>, <<"R","i","n","g">>, <<"b","a","k","e","r","s">>, <<"b","a","k","e","r">>, <<"b","o","x","e","s">>, <<"c","a","t","s">>,
      <<"r","u","n","n","i","n","g">>, <<"w","a","n","t","e","d">>, <<"s","t","u","d","i","e","s">>, <<"A","s">> }

StemWords == SeqsUpTo(StemAlphabet, MaxStemLen) \cup StemExamples

StemInit ==
    /\ callIn \in [fn : {"stemWord"}, word : StemWords]
    /\ callOut = None
    /\ simA = <<>> /\ simB = <<>> /\ simOut = None
    /\ textIn = <<>> /\ textOut = None
    /\ ClusterIdle
    /\ IoIdle

StemWord ==
    /\ callOut = None
    /\ callIn.fn = "stemWord"
    /\ callOut' = [fn |-> "stemWord", val |-> stemWord(callIn.word)]
    /\ UNCHANGED <<callIn, simVars, textVars, clusterVars, ioVars>>

StemNext == StemWord

SpecStem == StemInit /\ [][StemNext]_vars

(***************************************************************************)
(* C25: the suffix rule stemWord applies                                   *)
(***************************************************************************)
\* the rules in the order -ies, -ings, -ing, -ed, -ers, -er, -es, -s
ClaimedRuleOrder == <<1, 3, 2, 4, 5, 6, 7, 8>>

ruleMatches(word, r) == EndsWith(word, SUFFIX_RULES[r].suffix)

ruleResult(word, r) ==
    SubSeq(word, 1, Len(word) - Len(SUFFIX_RULES[r].suffix)) \o SUFFIX_RULES[r].replacement

\* the result of the first rule that matches, when it keeps 3 characters, and
\* the word itself otherwise; word is the lower-cased word
firstMatchingRuleOnly(word) ==
    LET matching == {k \in 1..Len(ClaimedRuleOrder) : ruleMatches(word, ClaimedRuleOrder[k])}
    IN  IF Len(word) <= 2 \/ matching = {} THEN word
        ELSE LET first == ClaimedRuleOrder[CHOOSE k \in matching : \A j \in matching : k <= j]
             IN  IF Len(ruleResult(word, first)) >= 3 THEN ruleResult(word, first) ELSE word

\* the result of the first rule that matches and keeps 3 characters, and the
\* word itself when no rule does
firstKeepingRule(word) ==
    LET keeping == {k \in 1..Len(ClaimedRuleOrder) :
                        /\ ruleMatches(word, ClaimedRuleOrder[k])
                        /\ Len(ruleResult(word, ClaimedRuleOrder[k])) >= 3}
    IN  IF Len(word) <= 2 \/ keeping = {} THEN word
        ELSE ruleResult(word, ClaimedRuleOrder[CHOOSE k \in keeping : \A j \in keeping : k <= j])

\* C25 (as stated): stemWord applies only the first suffix rule that matches,
\* in the order -ies, -ings, -ing, -ed, -ers, -er, -es, -s; when its result
\* has fewer than 3 characters the word is returned unchanged and no later
\* rule is tried; words of length <= 2 are returned unchanged ("unchanged"
\* read as the lower-cased word, which is what stemWord works on).
C25_FirstMatchingRuleOnly ==
    callOut.fn = "stemWord" => callOut.val = firstMatchingRuleOnly(toLowerCase(callIn.word))

\* C25 (amended): stemWord lower-cases the word and applies the first rule,
\* in that order, that matches and whose result keeps at least 3 characters;
\* a rule whose result is shorter is passed over and the later rules are
\* tried; when no rule matches and keeps 3 characters, and for words of length
\* <= 2, the lower-cased word is returned.
C25_FirstRuleKeepingThree ==
    callOut.fn = "stemWord" => callOut.val = firstKeepingRule(toLowerCase(callIn.word))

\* "dies": -ies would leave "dy", so -es is applied and gives "die"
C25_Witness ==
    /\ callOut.fn = "stemWord"
    /\ callIn.word = <<"d","i","e","s">>
    /\ callOut.val = <<"d","i","e">>
(***************************************************************************)
(* C26: the pattern bonus of computePostScore                              *)
(***************************************************************************)
keywordsIn(phrase) ==
    {k \in 1..Len(HIGHLIGHT_KEYWORDS) : Includes(toLowerCase(phrase), HIGHLIGHT_KEYWORDS[k])}

postScoreMatched(matched) ==
    computePostScore(callIn.post, matched, callIn.representativePhrase, callIn.now).postScore

MAX_ATTEMPTS == 3

FetchUrls == {"https://www.reddit.com/r/a/new.json", "https://www.reddit.com/r/b/new.json"}

FetchStatuses == {0, 200, 404, 429, 500, 503}

\* response.ok
IsOk(status) == status >= 200 /\ status <= 299

FetchInit ==
    /\ simA = <<>> /\ simB = <<>> /\ simOut = None
    /\ textIn = <<>> /\ textOut = None
    /\ ClusterIdle
    /\ CallIdle
    /\ IoIdle

\* fetchWithBackoff(url): attempt takes its default, 0
FetchCall ==
    /\ fetchPc = "idle"
    /\ \E url \in FetchUrls : fetchUrl' = url
    /\ attempt' = 0
    /\ fetchPc' = "request"
    /\ UNCHANGED <<requests, waits, fetchOut, simVars, textVars, clusterVars, callVars, dbVars>>

\* the fetch settles: the function returns, throws or goes to sleep
FetchSettles ==
    /\ fetchPc = "request"
    /\ \E status \in FetchStatuses :
        /\ requests' = Append(requests, status)
        /\ IF status = 0
           THEN fetchPc' = "done" /\ fetchOut' = [fn |-> "throw", error |-> "fetch failed"]
           ELSE IF IsOk(status)
           THEN fetchPc' = "done" /\ fetchOut' = [fn |-> "return", status |-> status]
           ELSE IF attempt >= MAX_ATTEMPTS
           THEN fetchPc' = "done" /\ fetchOut' = [fn |-> "throw", error |-> "after 3 attempts"]
           ELSE IF status = 429 \/ status >= 500
           THEN fetchPc' = "sleep" /\ fetchOut' = fetchOut
           ELSE fetchPc' = "done" /\ fetchOut' = [fn |-> "throw", error |-> "Error fetching"]
    /\ UNCHANGED <<fetchUrl, attempt, waits, simVars, textVars, clusterVars, callVars, dbVars>>

\* the sleep is over: fetchWithBackoff(url, attempt + 1)
FetchSleepDone ==
    /\ fetchPc = "sleep"
    /\ waits' = Append(waits, (2 ^ attempt) * 1000)
    /\ attempt' = attempt + 1
    /\ fetchPc' = "request"
    /\ UNCHANGED <<fetchUrl, requests, fetchOut, simVars, textVars, clusterVars, callVars, dbVars>>

FetchNext == FetchCall \/ FetchSettles \/ FetchSleepDone

SpecFetch == FetchInit /\ [][FetchNext]_vars

\* every fetch settles and every sleep ends
SpecFetchFair == SpecFetch /\ WF_vars(FetchNext)

(***************************************************************************)
(* C27: the requests of one call of fetchWithBackoff                       *)
(***************************************************************************)
Retryable(status) == status = 429 \/ status >= 500

\* C27: fetchWithBackoff issues at most MAX_ATTEMPTS (3) requests for one
\* URL; it retries only after status 429 or a status >= 500, having waited
\* 2^attempt seconds; it throws at once on any other status that is not OK;
\* and after the third failed request it throws the "after 3 attempts" error.
C27_AtMostMaxAttempts ==
    /\ Len(requests) <= MAX_ATTEMPTS
    /\ \A k \in 1..Len(requests) : k < Len(requests) => Retryable(requests[k])
    /\ Len(waits) <= Len(requests)
    /\ \A k \in 1..Len(waits) : waits[k] = (2 ^ (k - 1)) * 1000
    /\ fetchPc \in {"sleep", "done"} /\ Len(requests) > 0
       /\ ~IsOk(requests[Len(requests)]) /\ ~Retryable(requests[Len(requests)])
           => fetchPc = "done" /\ fetchOut.fn = "throw"
    /\ fetchPc \in {"sleep", "done"} /\ Len(requests) = MAX_ATTEMPTS
       /\ Retryable(requests[MAX_ATTEMPTS])
           => fetchPc = "done" /\ fetchOut = [fn |-> "throw", error |-> "after 3 attempts"]

\* C27 (termination): every call ends with a response or an error.
C27_CallTerminates == (fetchPc = "request") ~> (fetchPc = "done" /\ fetchOut # None)

\* the requests of a call are never more than MAX_ATTEMPTS + 1
C27_AtMostFourRequests == Len(requests) <= MAX_ATTEMPTS + 1
(***************************************************************************)
(* C30: the highlight keywords in synthesizeIdea                           *)
(***************************************************************************)
\* C30: for a cluster with at most 5 top keywords the keyword set of
\* synthesizeIdea holds every highlight keyword, so the requirements include
\* the CSV/Google Sheets entry and the Zapier entry, the generic fallback list
\* is never returned, the complexity score is at least 3.1 and the tier is
\* never "Weekend build".
C30_HighlightKeywordsAlwaysIn ==
    callOut.fn = "synthesizeIdea" /\ Len(callIn.cluster.topKeywords) <= 5 =>
        /\ \A k \in 1..Len(HIGHLIGHT_KEYWORDS) :
               HIGHLIGHT_KEYWORDS[k] \in Range(keywordsOf(callIn.cluster))
        /\ <<"C","S","V"," ","i","m","p","o","r","t","/","e","x","p","o","r","t"," ","o","r"," ","G","o","o","g","l","e"," ","S","h","e","e","t","s"," ","A","P","I">> \in Range(callOut.val.requirements)
        /\ <<"Z","a","p","i","e","r"," ","w","e","b","h","o","o","k","s"," ","/"," ","a","u","t","h"," ","t","o","k","e","n"," ","m","a","n","a","g","e","m","e","n","t">> \in Range(callOut.val.requirements)
        /\ callOut.val.requirements # GenericRequirements
        /\ complexityOfCluster(callIn.cluster) >= 31
        /\ callOut.val.complexityTier # "Weekend build"

\* five top keywords, one of them a highlight keyword, give 12 keywords, all
\* highlight keywords among them; for the same title without top keywords the
\* two entries come from the highlight keywords alone and the score is 3.1
C30_Witness ==
    /\ callOut.fn = "synthesizeIdea"
    /\ Len(callIn.cluster.topKeywords) = 5
    /\ Len(keywordsOf(callIn.cluster)) = 12
    /\ callIn.cluster.title = <<"f","i","x"," ","b","u","g">>
    /\ complexityOfCluster(callIn.cluster) > 31
    /\ \E other \in SynthClusters :
           /\ other.topKeywords = <<>>
           /\ other.title = <<"f","i","x"," ","b","u","g">>
           /\ Len(guessRequirements(other.title, keywordsOf(other))) = 2
           /\ complexityOfCluster(other) = 31
=============================================================================
